---- MODULE Spec2Model ----
(***************************************************************************)
(* A model of the Entrolytics Go SDK: the tracking client (package         *)
(* entrolytics), its shared transport routine sendToEndpoint and its       *)
(* response classifier handleResponse, and the generic client (package     *)
(* client).  One public call is in progress at a time; the transport       *)
(* (c.http.Do) is the environment, which answers, fails, or observes the   *)
(* caller's context being cancelled.                                       *)
(***************************************************************************)
EXTENDS Integers, Sequences, FiniteSets, TLC

VARIABLES
    client,    \* the entrolytics Client built by NewClientWithOptions
    gclient,   \* the generic Client built by New (package client)
    pc,        \* "idle" | "inflight" (blocked in c.http.Do) | "returned"
    verb,      \* the public method of the current (or last) call
    rec,       \* the record passed to that call
    ctx,       \* the context passed to that call
    req,       \* the *http.Request handed to c.http.Do, or NoReq
    doCalls,   \* how many times the current call invoked c.http.Do
    resp,      \* the *http.Response the transport delivered, or NoResp
    result,    \* the error value returned to the caller, or NoResult
    respBody,  \* what the call did with resp.Body: read to EOF, closed
    held,      \* what the maps and slices the caller passed hold now
    saved,     \* the locals of the goroutines that are not running
    mw         \* the inbound request a middleware is serving

vars ==
    <<client, gclient, pc, verb, rec, ctx, req, doCalls, resp, result, respBody, held,
      saved, mw>>
\* what a step of a client call leaves alone
elsewhere == <<saved, mw>>

(***************************************************************************)
(* Bounds of the model.                                                    *)
(***************************************************************************)
\* longest Retry-After header text enumerated character by character
MaxHeaderLen == 2
\* most members of a JSON object in a 400 response body
MaxMembers == 1
\* most events in one Batch call of the generic client
MaxBatch == 2
\* goroutines calling the client beside the running one
MaxOthers == 1

(***************************************************************************)
(* Program constants.                                                      *)
(***************************************************************************)
DefaultHost == "https://entrolytics.click"
DefaultTimeout == 10
Version == "2.1.0"
StatusOK == 200
StatusCreated == 201
StatusBadRequest == 400
StatusUnauthorized == 401
StatusTooManyRequests == 429

EmptyFn == [k \in {} |-> k]

(***************************************************************************)
(* Error values (errors.go).                                               *)
(***************************************************************************)
Nil == [type |-> "nil"]
NoResult == [type |-> "pending"]

EntrolyticsError(code, message, status) ==
    [type |-> "EntrolyticsError", Code |-> code, Message |-> message,
     StatusCode |-> status]

ErrAPIKeyRequired == EntrolyticsError("api_key_required", "API key is required", 0)
ErrWebsiteIDRequired == EntrolyticsError("website_id_required", "website ID is required", 0)
ErrEventNameRequired == EntrolyticsError("event_name_required", "event name is required", 0)
ErrURLRequired == EntrolyticsError("url_required", "URL is required", 0)
ErrUserIDRequired == EntrolyticsError("user_id_required", "user ID is required", 0)
ErrVitalMetricRequired ==
    EntrolyticsError("vital_metric_required",
                     "vital metric type is required (LCP, INP, CLS, TTFB, or FCP)", 0)
ErrVitalRatingRequired ==
    EntrolyticsError("vital_rating_required",
                     "vital rating is required (good, needs-improvement, or poor)", 0)
ErrFormIDRequired == EntrolyticsError("form_id_required", "form ID is required", 0)
ErrFormEventTypeRequired ==
    EntrolyticsError("form_event_type_required", "form event type is required", 0)
ErrURLPathRequired == EntrolyticsError("url_path_required", "URL path is required", 0)
ErrDeployIDRequired == EntrolyticsError("deploy_id_required", "deployment ID is required", 0)

AuthenticationError == [type |-> "AuthenticationError", Message |-> ""]
RateLimitError(retryAfter) ==
    [type |-> "RateLimitError", Message |-> "", RetryAfter |-> retryAfter]
\* Err is the wrapped cause, returned by Unwrap
NetworkError(message, err) == [type |-> "NetworkError", Message |-> message, Err |-> err]

(***************************************************************************)
(* Values a caller can put in a record.                                    *)
(***************************************************************************)
\* map[string]interface{}: nil, or a map whose values json can or cannot encode
NilMap == [nil |-> TRUE, kv |-> EmptyFn]
OkMap == [nil |-> FALSE, kv |-> ("plan" :> "pro")]
BadMap == [nil |-> FALSE, kv |-> ("cb" :> "<func>")]
Maps == {NilMap, OkMap, BadMap}
MapLen(m) == Cardinality(DOMAIN m.kv)

\* time.Time: seconds, nanoseconds and zone offset (hours); the zero Time
ZeroTime == [sec |-> 0, nsec |-> 0, off |-> 0]
CallerTime == [sec |-> 5, nsec |-> 250, off |-> 2]
Times == {ZeroTime, CallerTime}
\* what time.Now() reads
Clock == {[sec |-> 9, nsec |-> 750, off |-> 1]}
IsZero(t) == t.sec = 0 /\ t.nsec = 0
UTC(t) == [t EXCEPT !.off = 0]
\* t.Format(time.RFC3339): whole seconds and the zone offset; no fraction
FormatRFC3339(t) ==
    "T" \o ToString(t.sec) \o (IF t.off = 0 THEN "Z" ELSE "+0" \o ToString(t.off) \o ":00")

\* time.Time's MarshalJSON: RFC3339 with the fraction of a second
FormatRFC3339Nano(t) ==
    "T" \o ToString(t.sec) \o "." \o ToString(t.nsec)
        \o (IF t.off = 0 THEN "Z" ELSE "+0" \o ToString(t.off) \o ":00")

(***************************************************************************)
(* encoding/json.Marshal of the payload structs: a struct is its list of   *)
(* fields with their json tags; the encoding is the object that keeps a    *)
(* field unless it is tagged omitempty and holds its empty value.          *)
(***************************************************************************)
Field(k, t, v, omit) == [k |-> k, t |-> t, v |-> v, omit |-> omit]

IsEmptyValue(f) ==
    CASE f.t = "string" -> f.v = ""
      [] f.t = "map" -> MapLen(f.v) = 0
      [] f.t = "int" -> f.v = 0
      [] f.t = "float" -> f.v = "0"
      [] f.t = "bool" -> f.v = FALSE
      [] OTHER -> FALSE

RECURSIVE Encodable(_)
Encodable(f) ==
    CASE f.t = "map" -> \A k \in DOMAIN f.v.kv : f.v.kv[k] # "<func>"
      [] f.t = "float" -> f.v # "NaN"
      [] f.t = "struct" -> \A i \in DOMAIN f.v : Encodable(f.v[i])
      [] f.t = "list" -> \A i \in DOMAIN f.v : Encodable(f.v[i])
      [] OTHER -> TRUE

Kept(fields) == {i \in DOMAIN fields : ~(fields[i].omit /\ IsEmptyValue(fields[i]))}

RECURSIVE Encode(_)
Encode(f) ==
    CASE f.t = "map" ->
            IF f.v.nil THEN [t |-> "null", v |-> "null"]
            ELSE [t |-> "object", v |-> [k \in DOMAIN f.v.kv |-> [t |-> "string", v |-> f.v.kv[k]]]]
      [] f.t = "struct" ->
            [t |-> "object",
             v |-> [k \in {f.v[i].k : i \in Kept(f.v)} |->
                        Encode(f.v[CHOOSE i \in Kept(f.v) : f.v[i].k = k])]]
      [] f.t = "list" -> [t |-> "array", v |-> [i \in DOMAIN f.v |-> Encode(f.v[i])]]
      [] f.t = "time" -> [t |-> "string", v |-> FormatRFC3339Nano(f.v)]
      [] OTHER -> [t |-> f.t, v |-> f.v]

Struct(fields) == Field("", "struct", fields, FALSE)
\* json.Marshal(payload): the body, or an error
Marshal(payload) ==
    IF Encodable(payload) THEN [ok |-> TRUE, json |-> Encode(payload)]
    ELSE [ok |-> FALSE, json |-> [t |-> "null", v |-> "null"]]

(***************************************************************************)
(* HTTP responses the transport can deliver.                               *)
(***************************************************************************)
\* header texts are sequences of characters, so that strconv.Atoi can be
\* modelled digit by digit
HeaderAlphabet == {"3", "0", "-", "+", "x"}
RECURSIVE TextsOfLen(_)
TextsOfLen(n) ==
    IF n = 0 THEN {<<>>}
    ELSE {Append(t, c) : t \in TextsOfLen(n - 1), c \in HeaderAlphabet}
\* the largest int plus one, and a 20-digit number: decimal texts outside int
MaxIntPlusOneText ==
    <<"9","2","2","3","3","7","2","0","3","6","8","5","4","7","7","5","8","0","8">>
TwentyNinesText == [i \in 1..20 |-> "9"]
HeaderTexts ==
    UNION {TextsOfLen(n) : n \in 0..MaxHeaderLen} \cup {MaxIntPlusOneText, TwentyNinesText}

NoHeaders == EmptyFn
RetryAfterHeaders == {NoHeaders} \cup {("Retry-After" :> t) : t \in HeaderTexts}
FewHeaders == {NoHeaders, ("Retry-After" :> <<"3", "0">>)}
\* resp.Header.Get(name): the value, or the empty string when absent
HeaderGet(h, name) == IF name \in DOMAIN h THEN h[name] ELSE <<>>

\* a response body, by what encoding/json sees in it
JStr(s) == [t |-> "string", v |-> s]
JNum == [t |-> "number", v |-> "42"]
JNull == [t |-> "null", v |-> "null"]
MemberKeys == {"error", "Error", "message"}
MemberValues == {JStr(""), JStr("bad website"), JStr("quota"), JNum, JNull}
Members == [key : MemberKeys, val : MemberValues]
RECURSIVE MemberLists(_)
MemberLists(n) ==
    IF n = 0 THEN {<<>>}
    ELSE {Append(ms, m) : ms \in MemberLists(n - 1), m \in Members}
Body(kind, members) == [kind |-> kind, members |-> members]
EmptyBody == Body("empty", <<>>)
\* empty; not JSON; the JSON texts null, 7 and [1]; and JSON objects
Bodies ==
    {Body(k, <<>>) : k \in {"empty", "invalid", "null", "scalar", "array"}}
    \cup {Body("object", ms) : ms \in UNION {MemberLists(n) : n \in 0..MaxMembers}}
FewBodies == {EmptyBody, Body("object", <<[key |-> "error", val |-> JStr("bad website")]>>)}

Statuses == {200, 201, 204, 304, 400, 401, 404, 429, 500}
Response(status, header, body) == [StatusCode |-> status, Header |-> header, Body |-> body]
Responses ==
    {Response(StatusTooManyRequests, h, EmptyBody) : h \in RetryAfterHeaders}
    \cup {Response(StatusBadRequest, NoHeaders, b) : b \in Bodies}
    \cup {Response(s, h, b) : s \in Statuses \ {StatusBadRequest, StatusTooManyRequests},
                              h \in FewHeaders, b \in FewBodies}
NoResp == [StatusCode |-> 0, Header |-> NoHeaders, Body |-> EmptyBody]

(***************************************************************************)
(* strconv.Atoi, on a 64-bit int.                                          *)
(***************************************************************************)
DigitChars == <<"0", "1", "2", "3", "4", "5", "6", "7", "8", "9">>
IsDigit(c) == \E i \in 1..10 : DigitChars[i] = c
DigitVal(c) == (CHOOSE i \in 1..10 : DigitChars[i] = c) - 1
\* math.MaxInt64, in decimal
MaxIntText ==
    <<"9","2","2","3","3","7","2","0","3","6","8","5","4","7","7","5","8","0","7">>
HasSign(s) == Len(s) > 0 /\ s[1] \in {"-", "+"}
Unsigned(s) == IF HasSign(s) THEN Tail(s) ELSE s
RECURSIVE StripZeros(_)
StripZeros(d) == IF Len(d) > 1 /\ d[1] = "0" THEN StripZeros(Tail(d)) ELSE d
\* decimal texts without leading zeros: a <= b
RECURSIVE LexLeq(_, _)
LexLeq(a, b) ==
    IF a = <<>> THEN TRUE
    ELSE IF DigitVal(a[1]) # DigitVal(b[1]) THEN DigitVal(a[1]) < DigitVal(b[1])
    ELSE LexLeq(Tail(a), Tail(b))
MagnitudeLeq(a, b) == Len(a) < Len(b) \/ (Len(a) = Len(b) /\ LexLeq(a, b))
RECURSIVE DigitsValue(_, _)
DigitsValue(d, n) == IF d = <<>> THEN n ELSE DigitsValue(Tail(d), n * 10 + DigitVal(d[1]))
\* an optional sign followed by one or more decimal digits
SyntaxOK(s) == Len(Unsigned(s)) > 0 /\ \A i \in 1..Len(Unsigned(s)) : IsDigit(Unsigned(s)[i])
InRange(s) ==
    LET m == StripZeros(Unsigned(s))
    IN  IF HasSign(s) /\ s[1] = "-" THEN MagnitudeLeq(m, MaxIntPlusOneText)
        ELSE MagnitudeLeq(m, MaxIntText)
\* (n, err): err is set by a syntax error and by a range error, and the
\* caller then discards n
Atoi(s) ==
    IF SyntaxOK(s) /\ InRange(s)
    THEN [err |-> FALSE,
          n |-> IF HasSign(s) /\ s[1] = "-" THEN 0 - DigitsValue(Unsigned(s), 0)
                ELSE DigitsValue(Unsigned(s), 0)]
    ELSE [err |-> TRUE, n |-> 0]

(***************************************************************************)
(* json.Unmarshal(body, &errResp), errResp of type struct{Error string     *)
(* `json:"error"`}: a member whose key equals "error" under case folding   *)
(* is decoded into Error; members are decoded in order; a JSON null leaves *)
(* the field alone; a value that is not a string is a type error, which    *)
(* Unmarshal reports after decoding the rest.                              *)
(***************************************************************************)
EqualFold(key, name) == key = name \/ (key = "Error" /\ name = "error")
RECURSIVE DecodeMembers(_, _)
DecodeMembers(ms, acc) ==
    IF ms = <<>> THEN acc
    ELSE LET m == ms[1]
             next == IF ~EqualFold(m.key, "error") \/ m.val.t = "null" THEN acc
                     ELSE IF m.val.t = "string" THEN [acc EXCEPT !.Error = m.val.v]
                     ELSE [acc EXCEPT !.err = TRUE]
         IN  DecodeMembers(Tail(ms), next)
Unmarshal(body) ==
    CASE body.kind \in {"empty", "invalid"} -> [err |-> TRUE, Error |-> ""]
      [] body.kind = "null" -> [err |-> FALSE, Error |-> ""]
      [] body.kind \in {"scalar", "array"} -> [err |-> TRUE, Error |-> ""]
      [] OTHER -> DecodeMembers(body.members, [err |-> FALSE, Error |-> ""])

(***************************************************************************)
(* Client.handleResponse.                                                  *)
(***************************************************************************)
\* IsSuccess with 201 Created forgotten
IsSuccess_OnlyOK(r) == r.StatusCode = StatusOK

\* resp.StatusCode == http.StatusOK || resp.StatusCode == http.StatusCreated
IsSuccess(r) == r.StatusCode = StatusOK \/ r.StatusCode = StatusCreated

\* badRequestError without the errResp.Error != "" test
badRequestError_AnyError(r) ==
    LET errResp == Unmarshal(r.Body)
    IN  IF ~errResp.err
        THEN EntrolyticsError("validation_error", errResp.Error, r.StatusCode)
        ELSE EntrolyticsError("bad_request", "invalid request", r.StatusCode)

\* case http.StatusBadRequest
badRequestError(r) ==
    LET errResp == Unmarshal(r.Body)
    IN  IF ~errResp.err /\ errResp.Error # ""
        THEN EntrolyticsError("validation_error", errResp.Error, r.StatusCode)
        ELSE EntrolyticsError("bad_request", "invalid request", r.StatusCode)

\* rateLimitError that never reads the Retry-After header
rateLimitError_NoHeader(r) == RateLimitError(0)

\* case http.StatusTooManyRequests
rateLimitError(r) ==
    LET ra == HeaderGet(r.Header, "Retry-After")
        retryAfter == IF ra # <<>> /\ ~Atoi(ra).err THEN Atoi(ra).n ELSE 0
    IN  RateLimitError(retryAfter)

\* default
requestFailedError(r) ==
    EntrolyticsError("request_failed",
                     "request failed with status " \o ToString(r.StatusCode), r.StatusCode)

\* handleResponse with the http.StatusUnauthorized case missing
handleResponse_No401(r) ==
    IF IsSuccess(r) THEN Nil
    ELSE CASE r.StatusCode = StatusBadRequest -> badRequestError(r)
           [] r.StatusCode = StatusTooManyRequests -> rateLimitError(r)
           [] OTHER -> requestFailedError(r)

handleResponse(r) ==
    IF IsSuccess(r) THEN Nil
    ELSE CASE r.StatusCode = StatusUnauthorized -> AuthenticationError
           [] r.StatusCode = StatusBadRequest -> badRequestError(r)
           [] r.StatusCode = StatusTooManyRequests -> rateLimitError(r)
           [] OTHER -> requestFailedError(r)

(***************************************************************************)
(* Construction of the clients.                                            *)
(***************************************************************************)
MalformedHost == "http://bad host"
Options(apiKey, host, timeout, userAgent) ==
    [APIKey |-> apiKey, Host |-> host, Timeout |-> timeout, UserAgent |-> userAgent]
Config(endpoint, apiKey, timeout, debug) ==
    [Endpoint |-> endpoint, APIKey |-> apiKey, Timeout |-> timeout, Debug |-> debug]
\* the programs modelled: the options of the entrolytics client and the
\* Config of the generic client that each of them constructs
Setups ==
    {[opts |-> Options("", "", 0, ""),
      config |-> Config("https://collect.example", "", 0, FALSE)],
     [opts |-> Options("ent_xxx", "", 0, ""),
      config |-> Config("https://collect.example", "ent_xxx", 5, FALSE)],
     [opts |-> Options("ent_xxx", "https://analytics.yourdomain.com", 15, "my-app/1.0"),
      config |-> Config("https://collect.example", "ent_xxx", 5, TRUE)],
     [opts |-> Options("ent_xxx", MalformedHost, 0, ""),
      config |-> Config(MalformedHost, "ent_xxx", 5, FALSE)]}

NewClientWithOptions(opts) ==
    [apiKey |-> opts.APIKey,
     host |-> IF opts.Host = "" THEN DefaultHost ELSE opts.Host,
     timeout |-> IF opts.Timeout = 0 THEN DefaultTimeout ELSE opts.Timeout,
     userAgent |-> IF opts.UserAgent = "" THEN "entrolytics-go/" \o Version
                   ELSE opts.UserAgent]
NewClient(apiKey) ==
    NewClientWithOptions([APIKey |-> apiKey, Host |-> "", Timeout |-> 0, UserAgent |-> ""])

\* the generic client keeps its Config as given
New(config) == [config |-> config]

(***************************************************************************)
(* Contexts, requests and the bookkeeping of one call.                     *)
(***************************************************************************)
\* context.Background(), a cancellable context not yet done, or one that is done
Background == "background"
Contexts == {Background, "live", "canceled", "deadline"}
Done(c) == c \in {"canceled", "deadline"}
\* ctx.Err()
CtxErr(c) == IF c = "canceled" THEN "context canceled" ELSE "context deadline exceeded"

NoReq == [Method |-> "", URL |-> "", Header |-> NoHeaders, Body |-> JNull]
\* no response body was received
NoBody == [received |-> FALSE, read |-> FALSE, closed |-> FALSE]
NoRec == [none |-> TRUE]
HeaderSet(h, k, v) == [x \in DOMAIN h \cup {k} |-> IF x = k THEN v ELSE h[x]]
\* http.NewRequestWithContext fails when url.Parse rejects host + endpoint
URLParses(host, endpoint) == host # MalformedHost

\* the maps and the slice that a call receives by reference, as the caller passed them
RefsOf(v, r) ==
    CASE v = "Track" -> <<r.Data>>
      [] v = "Identify" -> <<r.Traits>>
      [] v = "TrackVital" -> <<r.Attribution>>
      [] v = "client.Track" -> <<r.Properties>>
      [] v = "client.Identify" -> <<r.traits>>
      [] v = "client.Page" -> <<r.properties>>
      [] v = "client.Batch" -> <<r>>
      [] OTHER -> <<>>
\* the same after the call: Page stores into the map it was given
\* (properties["page_name"] = name) unless it was given nil; no other call
\* writes through a reference it received
HeldAfter(v, r) ==
    IF v = "client.Page" /\ ~r.properties.nil
    THEN <<[nil |-> FALSE,
            kv |-> [k \in DOMAIN r.properties.kv \cup {"page_name"} |->
                       IF k = "page_name" THEN r.name ELSE r.properties.kv[k]]]>>
    ELSE RefsOf(v, r)

\* the call returns e to its caller without having reached the transport
ReturnEarly(v, r, c, e) ==
    /\ pc' = "returned"
    /\ verb' = v
    /\ rec' = r
    /\ ctx' = c
    /\ result' = e
    /\ req' = NoReq
    /\ resp' = NoResp
    /\ respBody' = NoBody
    /\ held' = HeldAfter(v, r)
    /\ UNCHANGED <<client, gclient, doCalls, elsewhere>>

\* the call hands request q to c.http.Do and blocks in it
Do(v, r, c, q) ==
    /\ pc' = "inflight"
    /\ verb' = v
    /\ rec' = r
    /\ ctx' = c
    /\ result' = NoResult
    /\ req' = q
    /\ resp' = NoResp
    /\ doCalls' = doCalls + 1
    /\ respBody' = NoBody
    /\ held' = HeldAfter(v, r)
    /\ UNCHANGED <<client, gclient, elsewhere>>

(***************************************************************************)
(* Client.sendToEndpoint and Client.send, up to the call of c.http.Do.     *)
(***************************************************************************)
\* ForwardingHeaders without the tests for the empty string
ForwardingHeaders_Unconditional(h, userAgent, ipAddress) ==
    HeaderSet(HeaderSet(h, "X-Forwarded-User-Agent", userAgent), "X-Forwarded-For", ipAddress)

ForwardingHeaders(h, userAgent, ipAddress) ==
    LET h1 == IF userAgent # "" THEN HeaderSet(h, "X-Forwarded-User-Agent", userAgent) ELSE h
    IN  IF ipAddress # "" THEN HeaderSet(h1, "X-Forwarded-For", ipAddress) ELSE h1

sendToEndpoint(v, r, c, endpoint, payload, userAgent, ipAddress) ==
    LET body == Marshal(payload)
        h0 == HeaderSet(HeaderSet(HeaderSet(NoHeaders,
                  "Authorization", "Bearer " \o client.apiKey),
                  "Content-Type", "application/json"),
                  "User-Agent", client.userAgent)
    IN  IF ~body.ok
        THEN ReturnEarly(v, r, c, NetworkError("failed to marshal payload", "json: unsupported"))
        ELSE IF ~URLParses(client.host, endpoint)
        THEN ReturnEarly(v, r, c, NetworkError("failed to create request", "parse: invalid URL"))
        ELSE Do(v, r, c, [Method |-> "POST",
                          URL |-> client.host \o endpoint,
                          Header |-> ForwardingHeaders(h0, userAgent, ipAddress),
                          Body |-> body.json])

\* send to another collection path
send_ToCollect(v, r, c, payload, userAgent, ipAddress) ==
    sendToEndpoint(v, r, c, "/api/collect", payload, userAgent, ipAddress)

send(v, r, c, payload, userAgent, ipAddress) ==
    sendToEndpoint(v, r, c, "/api/send", payload, userAgent, ipAddress)

(***************************************************************************)
(* The records of the entrolytics client (types) and the values the model  *)
(* draws for them.                                                         *)
(***************************************************************************)
WebsiteIDs == {"", "abc123"}
UserAgents == {"", "Mozilla/5.0"}
IPAddresses == {"", "192.168.1.1"}
\* the optional strings of a record are all set or all left empty
Optionals == {FALSE, TRUE}
Opt(set, value) == IF set THEN value ELSE ""

Events ==
    {[WebsiteID |-> w, Name |-> n, Data |-> d, URL |-> Opt(o, "/checkout"),
      Referrer |-> Opt(o, "https://google.com"), UserID |-> Opt(o, "user_123"),
      SessionID |-> Opt(o, "sess_1"), UserAgent |-> ua, IPAddress |-> ip, Timestamp |-> t] :
        w \in WebsiteIDs, n \in {"", "purchase"}, d \in Maps, o \in Optionals,
        ua \in UserAgents, ip \in IPAddresses, t \in Times}

PageViews ==
    {[WebsiteID |-> w, URL |-> u, Referrer |-> Opt(o, "https://google.com"),
      Title |-> ti, UserID |-> Opt(o, "user_123"), SessionID |-> Opt(o, "sess_1"),
      UserAgent |-> ua, IPAddress |-> ip, Timestamp |-> t] :
        w \in WebsiteIDs, u \in {"", "/pricing"}, ti \in {"", "Pricing"}, o \in Optionals,
        ua \in UserAgents, ip \in IPAddresses, t \in Times}

Identifies ==
    {[WebsiteID |-> w, UserID |-> u, Traits |-> tr, Timestamp |-> t] :
        w \in WebsiteIDs, u \in {"", "user_456"}, tr \in Maps, t \in Times}

\* the declared VitalMetric and VitalRating constants, and values outside them
VitalMetrics == {"LCP", "INP", "CLS", "TTFB", "FCP"}
VitalRatings == {"good", "needs-improvement", "poor"}
WebVitals ==
    {[WebsiteID |-> w, Metric |-> m, Value |-> val, Rating |-> ra, Delta |-> "0",
      ID |-> Opt(o, "v1-123"), NavigationType |-> Opt(o, "navigate"), Attribution |-> NilMap,
      URL |-> Opt(o, "https://site/pricing"), Path |-> Opt(o, "/pricing"),
      SessionID |-> Opt(o, "sess_1"), Timestamp |-> ZeroTime] :
        w \in WebsiteIDs, m \in {"", "LCP", "FID"}, val \in {"2500.5", "NaN"},
        ra \in {"", "good", "terrible"}, o \in Optionals}

\* the declared FormEventType constants, and values outside them
FormEventTypes == {"start", "field_focus", "field_blur", "field_error", "submit", "abandon"}
FormEvents ==
    {[WebsiteID |-> w, EventType |-> et, FormID |-> f, FormName |-> Opt(o, "Signup"),
      URLPath |-> u, FieldName |-> Opt(o, "email"), FieldType |-> Opt(o, "email"),
      FieldIndex |-> IF o THEN 2 ELSE 0, TimeOnField |-> IF o THEN 1200 ELSE 0,
      TimeSinceStart |-> IF o THEN 5000 ELSE 0, ErrorMessage |-> "", Success |-> o,
      SessionID |-> Opt(o, "sess_1"), Timestamp |-> ZeroTime] :
        w \in WebsiteIDs, et \in {"", "submit", "field-focus"}, f \in {"", "signup-form"},
        u \in {"", "/signup"}, o \in Optionals}

Deployments ==
    {[WebsiteID |-> w, DeployID |-> d, GitSha |-> Opt(o, "abc1234"),
      GitBranch |-> Opt(o, "main"), DeployURL |-> Opt(o, "https://deploy.example"),
      Source |-> Opt(o, "vercel")] :
        w \in WebsiteIDs \cup {"site-2"}, d \in {"", "dpl_1"}, o \in Optionals}

(***************************************************************************)
(* The payload structs with their json tags.                               *)
(***************************************************************************)
eventPayload(type, payload) ==
    Struct(<<Field("type", "string", type, FALSE),
             Field("payload", "struct", payload, FALSE)>>)

trackPayload(website, name, data, url, referrer, userID, sessionID, timestamp) ==
    <<Field("website", "string", website, FALSE),
      Field("name", "string", name, FALSE),
      Field("data", "map", data, TRUE),
      Field("url", "string", url, TRUE),
      Field("referrer", "string", referrer, TRUE),
      Field("userId", "string", userID, TRUE),
      Field("sessionId", "string", sessionID, TRUE),
      Field("timestamp", "string", timestamp, FALSE)>>

identifyPayload(website, userID, traits, timestamp) ==
    <<Field("website", "string", website, FALSE),
      Field("userId", "string", userID, FALSE),
      Field("traits", "map", traits, TRUE),
      Field("timestamp", "string", timestamp, FALSE)>>

vitalPayload(vital) ==
    Struct(<<Field("website", "string", vital.WebsiteID, FALSE),
             Field("metric", "string", vital.Metric, FALSE),
             Field("value", "float", vital.Value, FALSE),
             Field("rating", "string", vital.Rating, FALSE),
             Field("delta", "float", vital.Delta, TRUE),
             Field("id", "string", vital.ID, TRUE),
             Field("navigationType", "string", vital.NavigationType, TRUE),
             Field("attribution", "map", vital.Attribution, TRUE),
             Field("url", "string", vital.URL, TRUE),
             Field("path", "string", vital.Path, TRUE),
             Field("sessionId", "string", vital.SessionID, TRUE)>>)

formEventPayload(event) ==
    Struct(<<Field("website", "string", event.WebsiteID, FALSE),
             Field("eventType", "string", event.EventType, FALSE),
             Field("formId", "string", event.FormID, FALSE),
             Field("formName", "string", event.FormName, TRUE),
             Field("urlPath", "string", event.URLPath, FALSE),
             Field("fieldName", "string", event.FieldName, TRUE),
             Field("fieldType", "string", event.FieldType, TRUE),
             Field("fieldIndex", "int", event.FieldIndex, TRUE),
             Field("timeOnField", "int", event.TimeOnField, TRUE),
             Field("timeSinceStart", "int", event.TimeSinceStart, TRUE),
             Field("errorMessage", "string", event.ErrorMessage, TRUE),
             Field("success", "bool", event.Success, TRUE),
             Field("sessionId", "string", event.SessionID, TRUE)>>)

deploymentPayload(deploy) ==
    Struct(<<Field("website", "string", deploy.WebsiteID, FALSE),
             Field("deployId", "string", deploy.DeployID, FALSE),
             Field("gitSha", "string", deploy.GitSha, TRUE),
             Field("gitBranch", "string", deploy.GitBranch, TRUE),
             Field("deployUrl", "string", deploy.DeployURL, TRUE),
             Field("source", "string", deploy.Source, TRUE)>>)

(***************************************************************************)
(* The public methods of the entrolytics client.                           *)
(***************************************************************************)
\* Timestamp without the default for the zero Time
Timestamp_NoDefault(t, now) == t

\* timestamp := x.Timestamp; if timestamp.IsZero() { timestamp = time.Now().UTC() }
Timestamp(t, now) == IF IsZero(t) THEN UTC(now) ELSE t

TrackWithContext(c, event) ==
    /\ pc = "idle"
    /\ IF client.apiKey = "" THEN ReturnEarly("Track", event, c, ErrAPIKeyRequired)
       ELSE IF event.WebsiteID = "" THEN ReturnEarly("Track", event, c, ErrWebsiteIDRequired)
       ELSE IF event.Name = "" THEN ReturnEarly("Track", event, c, ErrEventNameRequired)
       ELSE \E now \in Clock :
              send("Track", event, c,
                   eventPayload("event",
                       trackPayload(event.WebsiteID, event.Name, event.Data, event.URL,
                                    event.Referrer, event.UserID, event.SessionID,
                                    FormatRFC3339(Timestamp(event.Timestamp, now)))),
                   event.UserAgent, event.IPAddress)

Track(event) == TrackWithContext(Background, event)

\* PageViewData that never folds the title in
PageViewData_NoTitle(title) == [nil |-> FALSE, kv |-> EmptyFn]

\* data := make(map[string]interface{}); if pv.Title != "" { data["title"] = pv.Title }
PageViewData(title) ==
    [nil |-> FALSE, kv |-> IF title # "" THEN ("title" :> title) ELSE EmptyFn]

PageViewWithContext(c, pv) ==
    /\ pc = "idle"
    /\ IF client.apiKey = "" THEN ReturnEarly("PageView", pv, c, ErrAPIKeyRequired)
       ELSE IF pv.WebsiteID = "" THEN ReturnEarly("PageView", pv, c, ErrWebsiteIDRequired)
       ELSE IF pv.URL = "" THEN ReturnEarly("PageView", pv, c, ErrURLRequired)
       ELSE \E now \in Clock :
              send("PageView", pv, c,
                   eventPayload("event",
                       trackPayload(pv.WebsiteID, "$pageview", PageViewData(pv.Title), pv.URL,
                                    pv.Referrer, pv.UserID, pv.SessionID,
                                    FormatRFC3339(Timestamp(pv.Timestamp, now)))),
                   pv.UserAgent, pv.IPAddress)

PageView(pv) == PageViewWithContext(Background, pv)

IdentifyWithContext(c, id) ==
    /\ pc = "idle"
    /\ IF client.apiKey = "" THEN ReturnEarly("Identify", id, c, ErrAPIKeyRequired)
       ELSE IF id.WebsiteID = "" THEN ReturnEarly("Identify", id, c, ErrWebsiteIDRequired)
       ELSE IF id.UserID = "" THEN ReturnEarly("Identify", id, c, ErrUserIDRequired)
       ELSE \E now \in Clock :
              send("Identify", id, c,
                   eventPayload("identify",
                       identifyPayload(id.WebsiteID, id.UserID, id.Traits,
                                       FormatRFC3339(Timestamp(id.Timestamp, now)))),
                   "", "")

Identify(id) == IdentifyWithContext(Background, id)

TrackVitalWithContext(c, vital) ==
    /\ pc = "idle"
    /\ IF client.apiKey = "" THEN ReturnEarly("TrackVital", vital, c, ErrAPIKeyRequired)
       ELSE IF vital.WebsiteID = "" THEN ReturnEarly("TrackVital", vital, c, ErrWebsiteIDRequired)
       ELSE IF vital.Metric = "" THEN ReturnEarly("TrackVital", vital, c, ErrVitalMetricRequired)
       ELSE IF vital.Rating = "" THEN ReturnEarly("TrackVital", vital, c, ErrVitalRatingRequired)
       ELSE sendToEndpoint("TrackVital", vital, c, "/api/collect/vitals",
                           vitalPayload(vital), "", "")

TrackVital(vital) == TrackVitalWithContext(Background, vital)

\* TrackFormEventWithContext with URLPath checked before EventType
TrackFormEventWithContext_URLPathFirst(c, event) ==
    /\ pc = "idle"
    /\ IF client.apiKey = "" THEN ReturnEarly("TrackFormEvent", event, c, ErrAPIKeyRequired)
       ELSE IF event.WebsiteID = ""
       THEN ReturnEarly("TrackFormEvent", event, c, ErrWebsiteIDRequired)
       ELSE IF event.FormID = "" THEN ReturnEarly("TrackFormEvent", event, c, ErrFormIDRequired)
       ELSE IF event.URLPath = ""
       THEN ReturnEarly("TrackFormEvent", event, c, ErrURLPathRequired)
       ELSE IF event.EventType = ""
       THEN ReturnEarly("TrackFormEvent", event, c, ErrFormEventTypeRequired)
       ELSE sendToEndpoint("TrackFormEvent", event, c, "/api/collect/forms",
                           formEventPayload(event), "", "")

TrackFormEventWithContext(c, event) ==
    /\ pc = "idle"
    /\ IF client.apiKey = "" THEN ReturnEarly("TrackFormEvent", event, c, ErrAPIKeyRequired)
       ELSE IF event.WebsiteID = ""
       THEN ReturnEarly("TrackFormEvent", event, c, ErrWebsiteIDRequired)
       ELSE IF event.FormID = "" THEN ReturnEarly("TrackFormEvent", event, c, ErrFormIDRequired)
       ELSE IF event.EventType = ""
       THEN ReturnEarly("TrackFormEvent", event, c, ErrFormEventTypeRequired)
       ELSE IF event.URLPath = ""
       THEN ReturnEarly("TrackFormEvent", event, c, ErrURLPathRequired)
       ELSE sendToEndpoint("TrackFormEvent", event, c, "/api/collect/forms",
                           formEventPayload(event), "", "")

TrackFormEvent(event) == TrackFormEventWithContext(Background, event)

SetDeploymentWithContext(c, deploy) ==
    /\ pc = "idle"
    /\ IF client.apiKey = "" THEN ReturnEarly("SetDeployment", deploy, c, ErrAPIKeyRequired)
       ELSE IF deploy.WebsiteID = ""
       THEN ReturnEarly("SetDeployment", deploy, c, ErrWebsiteIDRequired)
       ELSE IF deploy.DeployID = ""
       THEN ReturnEarly("SetDeployment", deploy, c, ErrDeployIDRequired)
       ELSE sendToEndpoint("SetDeployment", deploy, c,
                           "/api/websites/" \o deploy.WebsiteID \o "/deployments",
                           deploymentPayload(deploy), "", "")

SetDeployment(deploy) == SetDeploymentWithContext(Background, deploy)

(***************************************************************************)
(* The generic client (package client).                                    *)
(***************************************************************************)
GenericVerbs == {"client.Track", "client.Identify", "client.Page", "client.Batch"}
\* fmt.Errorf without and with %w
ErrorString(message) == [type |-> "errorString", Message |-> message]
WrapError(message, err) == [type |-> "wrapError", Message |-> message, Err |-> err]

GenericEvent(event, properties, userID, anonymousID, timestamp, websiteID) ==
    [Event |-> event, Properties |-> properties, UserID |-> userID,
     AnonymousID |-> anonymousID, Timestamp |-> timestamp, WebsiteID |-> websiteID]
GenericEvents ==
    {GenericEvent("signup", p, Opt(o, "user_123"), Opt(o, "anon_1"), t, w) :
        p \in Maps, o \in Optionals, t \in Times, w \in {"", "site_1"}}
BatchEvents ==
    {GenericEvent("signup", NilMap, "", "", ZeroTime, ""),
     GenericEvent("upgrade", OkMap, "user_123", "", CallerTime, "site_1"),
     GenericEvent("broken", BadMap, "", "anon_1", ZeroTime, "site_1")}
RECURSIVE EventLists(_)
EventLists(n) ==
    IF n = 0 THEN {<<>>}
    ELSE {Append(es, e) : es \in EventLists(n - 1), e \in BatchEvents}

\* WithDefaults that leaves an empty website ID empty
WithDefaults_KeepEmptyWebsite(event, now) ==
    [event EXCEPT !.Timestamp = IF IsZero(@) THEN now ELSE @]

\* the defaults both Track and Batch apply to their copy of an event
WithDefaults(event, now) ==
    [event EXCEPT !.Timestamp = IF IsZero(@) THEN now ELSE @,
                  !.WebsiteID = IF @ = "" THEN gclient.config.APIKey ELSE @]
\* the map[string]interface{} built from an event
EventMap(event) ==
    Struct(<<Field("event", "string", event.Event, FALSE),
             Field("properties", "map", event.Properties, FALSE),
             Field("userId", "string", event.UserID, FALSE),
             Field("anonymousId", "string", event.AnonymousID, FALSE),
             Field("timestamp", "time", event.Timestamp, FALSE),
             Field("website_id", "string", event.WebsiteID, FALSE)>>)

GenericHeaders ==
    HeaderSet(HeaderSet(NoHeaders, "Content-Type", "application/json"),
              "Authorization", "Bearer " \o gclient.config.APIKey)

\* v and r name the public method called and the caller's record
GenericSend(v, r, c, path, payload, what) ==
    LET body == Marshal(payload)
    IN  IF ~body.ok
        THEN ReturnEarly(v, r, c, WrapError("failed to marshal " \o what, "json: unsupported"))
        ELSE IF ~URLParses(gclient.config.Endpoint, path)
        THEN ReturnEarly(v, r, c, WrapError("failed to create " \o what \o " request",
                                            "parse: invalid URL"))
        ELSE Do(v, r, c, [Method |-> "POST", URL |-> gclient.config.Endpoint \o path,
                          Header |-> GenericHeaders, Body |-> body.json])

GenericTrackAs(v, r, c, event) ==
    \E now \in Clock :
        GenericSend(v, r, c, "/collect", EventMap(WithDefaults(event, now)), "event")

GenericTrackWithContext(c, event) ==
    /\ pc = "idle"
    /\ GenericTrackAs("client.Track", event, c, event)

GenericTrack(event) == GenericTrackWithContext(Background, event)

GenericIdentify(userID, traits) ==
    /\ pc = "idle"
    /\ GenericTrackAs("client.Identify", [userID |-> userID, traits |-> traits], Background,
                      GenericEvent("identify", traits, userID, "", ZeroTime, ""))

\* properties (a fresh map when nil was given) gets "page_name" and is sent
GenericPage(name, properties) ==
    LET props == [nil |-> FALSE,
                  kv |-> [k \in DOMAIN properties.kv \cup {"page_name"} |->
                             IF k = "page_name" THEN name ELSE properties.kv[k]]]
    IN  /\ pc = "idle"
        /\ GenericTrackAs("client.Page", [name |-> name, properties |-> properties],
                          Background, GenericEvent("page", props, "", "", ZeroTime, ""))

GenericBatchWithContext(c, events) ==
    /\ pc = "idle"
    /\ IF Len(events) = 0 THEN ReturnEarly("client.Batch", events, c, Nil)
       ELSE \E now \in Clock :
              GenericSend("client.Batch", events, c, "/collect/batch",
                          Field("", "list",
                                [i \in DOMAIN events |-> EventMap(WithDefaults(events[i], now))],
                                FALSE),
                          "batch")

GenericBatch(events) == GenericBatchWithContext(Background, events)

\* the status check that ends TrackWithContext and BatchWithContext
GenericStatusCheck(v, r) ==
    IF r.StatusCode >= 400
    THEN ErrorString((IF v = "client.Batch" THEN "server returned error status for batch: "
                      ELSE "server returned error status: ") \o ToString(r.StatusCode))
    ELSE Nil

(***************************************************************************)
(* The transport: what c.http.Do does with the request it was handed.      *)
(***************************************************************************)
\* resp.Body on return: handleResponse reads it to EOF (io.ReadAll) only past
\* the success test, the generic client never reads it; both close it (defer)
BodyAfter(v, r) ==
    IF r.StatusCode = 0 THEN NoBody
    ELSE [received |-> TRUE,
          read |-> v \notin GenericVerbs /\ ~IsSuccess(r),
          closed |-> TRUE]

Returns(e, r) ==
    /\ pc' = "returned"
    /\ result' = e
    /\ resp' = r
    /\ respBody' = BodyAfter(verb, r)
    /\ UNCHANGED <<client, gclient, verb, rec, ctx, req, doCalls, held, elsewhere>>

\* Respond for a client that sends the request again after a 5xx
Respond_RetryOn5xx(r) ==
    /\ pc = "inflight"
    /\ ~Done(ctx)
    /\ IF r.StatusCode >= 500 /\ doCalls < 2
       THEN /\ doCalls' = doCalls + 1
            /\ UNCHANGED <<client, gclient, pc, verb, rec, ctx, req, resp, result,
                           respBody, held, elsewhere>>
       ELSE Returns(IF verb \in GenericVerbs THEN GenericStatusCheck(verb, r)
                    ELSE handleResponse(r), r)

\* Respond for a request that was built without the caller's context
Respond_WithoutContext(r) ==
    /\ pc = "inflight"
    /\ Returns(IF verb \in GenericVerbs THEN GenericStatusCheck(verb, r)
               ELSE handleResponse(r), r)

\* Respond for a client that drops its API key when the server answers 401
Respond_ForgetKeyOn401(r) ==
    /\ pc = "inflight"
    /\ ~Done(ctx)
    /\ pc' = "returned"
    /\ result' = (IF verb \in GenericVerbs THEN GenericStatusCheck(verb, r)
                  ELSE handleResponse(r))
    /\ resp' = r
    /\ respBody' = BodyAfter(verb, r)
    /\ client' = IF r.StatusCode = StatusUnauthorized THEN [client EXCEPT !.apiKey = ""]
                 ELSE client
    /\ UNCHANGED <<gclient, verb, rec, ctx, req, doCalls, held, elsewhere>>

\* the transport delivers response r; the call classifies it and returns
Respond(r) ==
    /\ pc = "inflight"
    /\ ~Done(ctx)
    /\ Returns(IF verb \in GenericVerbs THEN GenericStatusCheck(verb, r)
               ELSE handleResponse(r), r)

\* DNS, connect, TLS, or the http.Client's own Timeout
TransportFailures == {"dial tcp: connection refused", "Client.Timeout exceeded"}
\* DoError that returns the transport's error as it is
DoError_Unwrapped(cause) == ErrorString(cause)

DoError(cause) ==
    IF verb \in GenericVerbs
    THEN WrapError(IF verb = "client.Batch" THEN "failed to send batch request"
                   ELSE "failed to send request", cause)
    ELSE NetworkError("request failed", cause)

TransportFail(cause) ==
    /\ pc = "inflight"
    /\ ~Done(ctx)
    /\ Returns(DoError(cause), NoResp)

\* the caller cancels the context, or its deadline passes, before a response
CancelCtx(how) ==
    /\ pc = "inflight"
    /\ ctx = "live"
    /\ ctx' = how
    /\ UNCHANGED <<client, gclient, pc, verb, rec, req, doCalls, resp, result,
                   respBody, held, elsewhere>>

\* c.http.Do returns the context's error once the context is done
DoAbort ==
    /\ pc = "inflight"
    /\ Done(ctx)
    /\ Returns(DoError(CtxErr(ctx)), NoResp)

\* the caller has its result; the next call can start
NextCall ==
    /\ pc = "returned"
    /\ pc' = "idle"
    /\ verb' = ""
    /\ rec' = NoRec
    /\ ctx' = Background
    /\ req' = NoReq
    /\ resp' = NoResp
    /\ result' = NoResult
    /\ doCalls' = 0
    /\ respBody' = NoBody
    /\ held' = <<>>
    /\ UNCHANGED <<client, gclient, elsewhere>>

(***************************************************************************)
(* The specification.                                                      *)
(***************************************************************************)
Init ==
    /\ \E s \in Setups :
          /\ client = NewClientWithOptions(s.opts)
          /\ gclient = New(s.config)
    /\ pc = "idle"
    /\ verb = ""
    /\ rec = NoRec
    /\ ctx = Background
    /\ req = NoReq
    /\ doCalls = 0
    /\ resp = NoResp
    /\ result = NoResult
    /\ respBody = NoBody
    /\ held = <<>>
    /\ saved = <<>>
    /\ mw = [pc |-> "idle"]

Next ==
    \/ \E c \in Contexts, event \in Events : TrackWithContext(c, event)
    \/ \E event \in Events : Track(event)
    \/ \E c \in Contexts, pv \in PageViews : PageViewWithContext(c, pv)
    \/ \E pv \in PageViews : PageView(pv)
    \/ \E c \in Contexts, id \in Identifies : IdentifyWithContext(c, id)
    \/ \E id \in Identifies : Identify(id)
    \/ \E c \in Contexts, vital \in WebVitals : TrackVitalWithContext(c, vital)
    \/ \E vital \in WebVitals : TrackVital(vital)
    \/ \E c \in Contexts, event \in FormEvents : TrackFormEventWithContext(c, event)
    \/ \E event \in FormEvents : TrackFormEvent(event)
    \/ \E c \in Contexts, deploy \in Deployments : SetDeploymentWithContext(c, deploy)
    \/ \E deploy \in Deployments : SetDeployment(deploy)
    \/ \E c \in Contexts, event \in GenericEvents : GenericTrackWithContext(c, event)
    \/ \E event \in GenericEvents : GenericTrack(event)
    \/ \E userID \in {"", "user_123"}, traits \in Maps : GenericIdentify(userID, traits)
    \/ \E properties \in Maps : GenericPage("Pricing", properties)
    \/ \E c \in Contexts, events \in UNION {EventLists(n) : n \in 0..MaxBatch} :
          GenericBatchWithContext(c, events)
    \/ \E events \in UNION {EventLists(n) : n \in 0..MaxBatch} : GenericBatch(events)
    \/ \E r \in Responses : Respond(r)
    \/ \E cause \in TransportFailures : TransportFail(cause)
    \/ \E how \in {"canceled", "deadline"} : CancelCtx(how)
    \/ DoAbort
    \/ NextCall

Spec == Init /\ [][Next]_vars

(***************************************************************************)
(* Vocabulary of the properties.                                           *)
(***************************************************************************)
EntrolyticsVerbs ==
    {"Track", "PageView", "Identify", "TrackVital", "TrackFormEvent", "SetDeployment"}
\* the current call handed a request to the transport
HasRequest == req.Method # ""
\* the transport delivered a response to the current call
Answered == resp.StatusCode # 0

\* the required fields of each record, in the order the checks are documented
RequiredFields(v) ==
    CASE v = "Track" -> <<"WebsiteID", "Name">>
      [] v = "PageView" -> <<"WebsiteID", "URL">>
      [] v = "Identify" -> <<"WebsiteID", "UserID">>
      [] v = "TrackVital" -> <<"WebsiteID", "Metric", "Rating">>
      [] v = "TrackFormEvent" -> <<"WebsiteID", "FormID", "EventType", "URLPath">>
      [] OTHER -> <<"WebsiteID", "DeployID">>
\* the validation error that names a field
RequiredError(v, f) ==
    CASE f = "WebsiteID" -> ErrWebsiteIDRequired
      [] f = "Name" -> ErrEventNameRequired
      [] f = "URL" -> ErrURLRequired
      [] f = "UserID" -> ErrUserIDRequired
      [] f = "Metric" -> ErrVitalMetricRequired
      [] f = "Rating" -> ErrVitalRatingRequired
      [] f = "FormID" -> ErrFormIDRequired
      [] f = "EventType" -> ErrFormEventTypeRequired
      [] f = "URLPath" -> ErrURLPathRequired
      [] OTHER -> ErrDeployIDRequired
MissingFields(v, r) == {i \in DOMAIN RequiredFields(v) : r[RequiredFields(v)[i]] = ""}
FirstMissingError(v, r) ==
    LET i == CHOOSE j \in MissingFields(v, r) : \A k \in MissingFields(v, r) : j <= k
    IN  RequiredError(v, RequiredFields(v)[i])
\* a call of the entrolytics client was made with a record that lacks a required field
CallMissingField == pc # "idle" /\ verb \in EntrolyticsVerbs /\ MissingFields(verb, rec) # {}

(***************************************************************************)
(* C1 as stated: a call whose record lacks a required field returns the    *)
(* validation error naming the first missing field of the record, and      *)
(* issues no HTTP request.  It fails for a client built with an empty API  *)
(* key, whose calls return ErrAPIKeyRequired before any field is checked.  *)
(***************************************************************************)
C1_FirstMissingFieldOfRecord ==
    CallMissingField =>
        /\ pc = "returned"
        /\ result = FirstMissingError(verb, rec)
        /\ doCalls = 0
        /\ ~HasRequest

(***************************************************************************)
(* C1 amended: with a non-empty API key, a call whose record lacks a       *)
(* required field returns the validation error naming the first missing    *)
(* field in check order; with an empty API key it returns                  *)
(* ErrAPIKeyRequired; in both cases no HTTP request is issued.             *)
(***************************************************************************)
C1_FirstMissingFieldAfterAPIKey ==
    CallMissingField =>
        /\ pc = "returned"
        /\ result = IF client.apiKey = "" THEN ErrAPIKeyRequired
                    ELSE FirstMissingError(verb, rec)
        /\ doCalls = 0
        /\ ~HasRequest

\* a form event with two fields missing was rejected for the first of them
C1_Witness ==
    /\ pc = "returned"
    /\ verb = "TrackFormEvent"
    /\ client.apiKey # ""
    /\ rec.WebsiteID # "" /\ rec.FormID # "" /\ rec.EventType = "" /\ rec.URLPath = ""
    /\ result = ErrFormEventTypeRequired
    /\ doCalls = 0

(***************************************************************************)
(* C2: a call of the entrolytics client that passed validation and was     *)
(* answered with status 200 or 201 returns nil, whatever the body and the  *)
(* headers of the response.                                                *)
(***************************************************************************)
C2_SuccessOn200And201 ==
    (pc = "returned" /\ verb \in EntrolyticsVerbs /\ Answered
        /\ resp.StatusCode \in {200, 201}) => result = Nil

\* a 201 with a body and a Retry-After header was taken as success
C2_Witness ==
    /\ pc = "returned"
    /\ verb \in EntrolyticsVerbs
    /\ resp.StatusCode = 201
    /\ resp.Body # EmptyBody
    /\ "Retry-After" \in DOMAIN resp.Header
    /\ result = Nil

(***************************************************************************)
(* C3: a call of the entrolytics client that passed validation and was     *)
(* answered with status 401 returns an AuthenticationError, whatever the   *)
(* body of the response.                                                   *)
(***************************************************************************)
C3_AuthenticationErrorOn401 ==
    (pc = "returned" /\ verb \in EntrolyticsVerbs /\ Answered /\ resp.StatusCode = 401)
        => result.type = "AuthenticationError"

\* a 401 with a non-empty body was reported as AuthenticationError
C3_Witness ==
    /\ pc = "returned"
    /\ verb = "SetDeployment"
    /\ resp.StatusCode = 401
    /\ resp.Body # EmptyBody
    /\ result = AuthenticationError

\* an entrolytics call was answered by the transport with the given status
AnsweredWith(status) ==
    pc = "returned" /\ verb \in EntrolyticsVerbs /\ Answered /\ resp.StatusCode = status

\* a decimal integer: an optional sign, then one or more digits
IsNumeric(s) ==
    LET d == IF s # <<>> /\ s[1] \in {"-", "+"} THEN Tail(s) ELSE s
    IN  d # <<>> /\ \A i \in 1..Len(d) : d[i] \in {DigitChars[j] : j \in 1..10}
\* the decimal text of a natural number
RECURSIVE NatText(_)
NatText(n) == IF n < 10 THEN <<DigitChars[n + 1]>> ELSE Append(NatText(n \div 10), DigitChars[(n % 10) + 1])
\* n is the integer that the numeric text s denotes
Denotes(s, n) ==
    LET neg == s[1] = "-"
        mag == StripZeros(IF s[1] \in {"-", "+"} THEN Tail(s) ELSE s)
    IN  IF mag = <<"0">> THEN n = 0
        ELSE /\ (n < 0) = neg
             /\ NatText(IF n < 0 THEN 0 - n ELSE n) = mag
\* the numeric text s denotes an integer that an int can hold
FitsInt(s) ==
    LET neg == s[1] = "-"
        mag == StripZeros(IF s[1] \in {"-", "+"} THEN Tail(s) ELSE s)
    IN  MagnitudeLeq(mag, IF neg THEN MaxIntPlusOneText ELSE MaxIntText)
RetryAfterHeader == HeaderGet(resp.Header, "Retry-After")

(***************************************************************************)
(* C4 as stated: on 429 the call returns a RateLimitError whose RetryAfter *)
(* is the integer in the Retry-After header when the header is present and *)
(* numeric, and 0 when it is absent or not numeric.  It fails for a        *)
(* numeric header too large for an int, which yields 0.                    *)
(***************************************************************************)
C4_RetryAfterWhenNumeric ==
    AnsweredWith(429) =>
        /\ result.type = "RateLimitError"
        /\ IF IsNumeric(RetryAfterHeader) THEN Denotes(RetryAfterHeader, result.RetryAfter)
           ELSE result.RetryAfter = 0

(***************************************************************************)
(* C4 amended: on 429 the call returns a RateLimitError whose RetryAfter   *)
(* is the integer in the Retry-After header when the header is a decimal   *)
(* integer within the range of int, and 0 when the header is absent, not   *)
(* numeric, or out of that range.                                          *)
(***************************************************************************)
C4_RetryAfterWhenNumericInRange ==
    AnsweredWith(429) =>
        /\ result.type = "RateLimitError"
        /\ IF IsNumeric(RetryAfterHeader) /\ FitsInt(RetryAfterHeader)
           THEN Denotes(RetryAfterHeader, result.RetryAfter)
           ELSE result.RetryAfter = 0

\* a 429 with Retry-After: 30 was reported with RetryAfter 30
C4_Witness ==
    /\ AnsweredWith(429)
    /\ RetryAfterHeader = <<"3", "0">>
    /\ result = RateLimitError(30)

\* the members of the body that name the field "error": exactly, and under case folding
ExactErrorMembers(b) == {i \in DOMAIN b.members : b.members[i].key = "error"}
FoldedErrorMembers(b) ==
    {i \in DOMAIN b.members : b.members[i].key \in {"error", "Error"}
                              /\ b.members[i].val.t # "null"}
Last(S) == CHOOSE i \in S : \A j \in S : j <= i
\* the body is a JSON object whose "error" member is a non-empty string
HasErrorString(b) ==
    /\ b.kind = "object"
    /\ ExactErrorMembers(b) # {}
    /\ b.members[Last(ExactErrorMembers(b))].val.t = "string"
    /\ b.members[Last(ExactErrorMembers(b))].val.v # ""
\* the same, with keys compared without regard to case, nulls skipped, and no
\* member of the name holding anything but a string
HasFoldedErrorString(b) ==
    /\ b.kind = "object"
    /\ FoldedErrorMembers(b) # {}
    /\ \A i \in FoldedErrorMembers(b) : b.members[i].val.t = "string"
    /\ b.members[Last(FoldedErrorMembers(b))].val.v # ""

C6_RequestFailedIffOtherNon2xx ==
    (pc = "returned" /\ verb \in EntrolyticsVerbs /\ Answered) =>
        /\ (result.type = "EntrolyticsError" /\ result.Code = "request_failed"
               /\ result.StatusCode = resp.StatusCode)
           <=> (resp.StatusCode \notin 200..299 /\ resp.StatusCode \notin {400, 401, 429})
        /\ resp.StatusCode \in 200..299 => result = Nil

\* the typed errors of the entrolytics package
ValidationErrors ==
    {ErrAPIKeyRequired, ErrWebsiteIDRequired, ErrEventNameRequired, ErrURLRequired,
     ErrUserIDRequired, ErrVitalMetricRequired, ErrVitalRatingRequired, ErrFormIDRequired,
     ErrFormEventTypeRequired, ErrURLPathRequired, ErrDeployIDRequired}
IsTyped(e) ==
    \/ e \in ValidationErrors
    \/ e.type = "AuthenticationError"
    \/ e.type = "RateLimitError"
    \/ e.type = "EntrolyticsError" /\ e.StatusCode # 0
    \/ e.type = "NetworkError"
\* the errors that fmt.Errorf builds
IsUntyped(e) == e.type \in {"errorString", "wrapError"}

(***************************************************************************)
(* C7 as stated: every public call of either client ends in success or in  *)
(* one error of the typed taxonomy (validation error, AuthenticationError, *)
(* RateLimitError, EntrolyticsError with status, NetworkError).  It fails  *)
(* for the generic client, whose errors are built by fmt.Errorf.           *)
(***************************************************************************)
C7_TypedOutcomeBothClients == pc = "returned" => (result = Nil \/ IsTyped(result))

(***************************************************************************)
(* C7 amended: every public call of the entrolytics client ends in success *)
(* or in one error of the typed taxonomy; every public call of the generic *)
(* client ends in success or in one untyped error built by fmt.Errorf; no  *)
(* call ends without an outcome.                                           *)
(***************************************************************************)
C7_TypedOutcomeEntrolyticsClient ==
    /\ pc = "returned" /\ verb \in EntrolyticsVerbs => (result = Nil \/ IsTyped(result))
    /\ pc = "returned" /\ verb \in GenericVerbs => (result = Nil \/ IsUntyped(result))
    /\ pc = "returned" => (result # NoResult /\ verb \in EntrolyticsVerbs \cup GenericVerbs)

\* an entrolytics call whose transport failed ended in a NetworkError
C7_Witness ==
    /\ pc = "returned"
    /\ verb = "Identify"
    /\ doCalls = 1
    /\ ~Answered
    /\ result = NetworkError("request failed", "dial tcp: connection refused")

(***************************************************************************)
(* C8: every public call issues at most one HTTP request.  The count of    *)
(* requests handed to the transport never exceeds one per call; it grows   *)
(* only when a call starts, never after an outcome of the request          *)
(* (response of any status, transport failure, cancellation); and a call   *)
(* that ends in a validation error has issued none.                        *)
(***************************************************************************)
C8_AtMostOneRequest ==
    /\ [](/\ doCalls <= 1
          /\ (pc = "returned" /\ result \in ValidationErrors) => (doCalls = 0 /\ ~HasRequest))
    /\ [][doCalls' > doCalls => (pc = "idle" /\ doCalls' = 1)]_vars
    /\ [][(pc = "inflight" /\ pc' # "inflight") =>
              (pc' = "returned" /\ doCalls' = doCalls /\ req' = req)]_vars

\* a call answered with 500 returned after its single request
C8_Witness ==
    /\ pc = "returned"
    /\ Answered
    /\ resp.StatusCode = 500
    /\ doCalls = 1
    /\ result.type = "EntrolyticsError"

(***************************************************************************)
(* C9 as stated: a WithContext call whose context is cancelled or past its *)
(* deadline before the transport delivers a response returns a             *)
(* NetworkError wrapping the cancellation cause.  It fails for a call made *)
(* with a context that is already done and a record that fails validation  *)
(* or serialization: the call returns that earlier error.                  *)
(***************************************************************************)
C9_NetworkErrorOnCancellation ==
    (pc = "returned" /\ verb \in EntrolyticsVerbs /\ Done(ctx)) =>
        (result.type = "NetworkError" /\ result.Err = CtxErr(ctx))

(***************************************************************************)
(* C9 amended: a WithContext call of the entrolytics client that passed    *)
(* validation and handed its request to the transport, and whose context   *)
(* is cancelled or past its deadline before the transport delivers a       *)
(* response, returns NetworkError "request failed" wrapping the context's  *)
(* error; and no call whose context is done before a response returns      *)
(* success.                                                                *)
(***************************************************************************)
C9_NetworkErrorOnCancellationInFlight ==
    (pc = "returned" /\ verb \in EntrolyticsVerbs /\ Done(ctx)) =>
        /\ result # Nil
        /\ ~Answered
        /\ doCalls = 1 => result = NetworkError("request failed", CtxErr(ctx))

\* a Track call whose deadline passed while the request was in flight
C9_Witness ==
    /\ pc = "returned"
    /\ verb = "Track"
    /\ ctx = "deadline"
    /\ doCalls = 1
    /\ result = NetworkError("request failed", "context deadline exceeded")

\* every object key and every string that occurs in a JSON value
RECURSIVE JSONStrings(_)
JSONStrings(j) ==
    CASE j.t = "object" -> DOMAIN j.v \cup UNION {JSONStrings(j.v[k]) : k \in DOMAIN j.v}
      [] j.t = "array" -> UNION {JSONStrings(j.v[i]) : i \in DOMAIN j.v}
      [] j.t = "string" -> {j.v}
      [] OTHER -> {}
\* the header is on the request exactly when the value is non-empty, and then holds it
Forwards(name, value) ==
    /\ (name \in DOMAIN req.Header) <=> (value # "")
    /\ value # "" => req.Header[name] = value

(***************************************************************************)
(* C10: a request of Track or PageView holds neither the record's          *)
(* UserAgent nor its IPAddress in its JSON body, carries                   *)
(* X-Forwarded-User-Agent (X-Forwarded-For) with exactly that value if and *)
(* only if the value is non-empty; a request of Identify, TrackVital,      *)
(* TrackFormEvent or SetDeployment carries neither header.                 *)
(***************************************************************************)
C10_ForwardingHeadersNotBody ==
    (HasRequest /\ verb \in EntrolyticsVerbs) =>
        IF verb \in {"Track", "PageView"}
        THEN /\ Forwards("X-Forwarded-User-Agent", rec.UserAgent)
             /\ Forwards("X-Forwarded-For", rec.IPAddress)
             /\ JSONStrings(req.Body) \cap
                    ({rec.UserAgent, rec.IPAddress, "userAgent", "ipAddress",
                      "UserAgent", "IPAddress"} \ {""}) = {}
        ELSE DOMAIN req.Header \cap {"X-Forwarded-User-Agent", "X-Forwarded-For"} = {}

\* a PageView request with an IP address and no user agent
C10_Witness ==
    /\ HasRequest
    /\ verb = "PageView"
    /\ rec.UserAgent = "" /\ rec.IPAddress = "192.168.1.1"
    /\ "X-Forwarded-For" \in DOMAIN req.Header
    /\ req.Header["X-Forwarded-For"] = "192.168.1.1"
    /\ "X-Forwarded-User-Agent" \notin DOMAIN req.Header
    /\ req.Body.t = "object"

\* the verbs that send an envelope {type, payload}
EnvelopeVerbs == {"Track", "PageView", "Identify"}
EnvelopeSent == HasRequest /\ verb \in EnvelopeVerbs
SentPayload == req.Body.v["payload"].v
\* a Time cut to whole seconds, and the times RFC 3339 without a fraction can write
Truncate(t) == [t EXCEPT !.nsec = 0]
WholeSecondTimes == {Truncate(t) : t \in Times \cup Clock \cup {UTC(u) : u \in Times \cup Clock}}
IsRFC3339(s) == \E t \in WholeSecondTimes : FormatRFC3339(t) = s
\* time.Parse(time.RFC3339, s)
ParseRFC3339(s) == CHOOSE t \in WholeSecondTimes : FormatRFC3339(t) = s
\* the instant the call is to report: the caller's, or the time of the call in UTC
ReportedTimes ==
    IF IsZero(rec.Timestamp) THEN {UTC(now) : now \in Clock} ELSE {rec.Timestamp}
TimestampIsString ==
    /\ "timestamp" \in DOMAIN SentPayload
    /\ SentPayload["timestamp"].t = "string"
    /\ SentPayload["timestamp"].v # ""
    /\ IsRFC3339(SentPayload["timestamp"].v)

(***************************************************************************)
(* C11: every envelope of Track, PageView or Identify holds a              *)
(* payload.timestamp that is present, a string, not empty, and the RFC     *)
(* 3339 writing (whole seconds, zone offset kept) of the caller's          *)
(* timestamp when the caller set one, and of the UTC time of the call when *)
(* the caller left it zero.                                                *)
(***************************************************************************)
C11_TimestampIsTheInstantInSeconds ==
    EnvelopeSent =>
        /\ TimestampIsString
        /\ ParseRFC3339(SentPayload["timestamp"].v) \in {Truncate(t) : t \in ReportedTimes}

\* an Identify without a timestamp was sent with the time of the call, in UTC
C11_Witness ==
    /\ EnvelopeSent
    /\ verb = "Identify"
    /\ rec.Timestamp = ZeroTime
    /\ SentPayload["timestamp"] = JStr("T9Z")

PageViewSent == HasRequest /\ verb = "PageView"
JObject(members) == [t |-> "object", v |-> members]

(***************************************************************************)
(* C12 as stated: the body of a PageView names the event "$pageview" and   *)
(* holds a data member in every case: the empty object when the title is   *)
(* empty, {title: <title>} otherwise.  It fails for an empty title: the    *)
(* data member is tagged omitempty and the empty map is left out.          *)
(***************************************************************************)
C12_PageViewDataAlwaysPresent ==
    PageViewSent =>
        /\ SentPayload["name"] = JStr("$pageview")
        /\ "data" \in DOMAIN SentPayload
        /\ SentPayload["data"] =
              IF rec.Title = "" THEN JObject(EmptyFn) ELSE JObject("title" :> JStr(rec.Title))

(***************************************************************************)
(* C12 amended: the body of a PageView names the event "$pageview"; when   *)
(* the title is non-empty its data member is exactly {title: <title>};     *)
(* when the title is empty the body has no data member at all.             *)
(***************************************************************************)
C12_PageViewDataOmittedWhenEmpty ==
    PageViewSent =>
        /\ SentPayload["name"] = JStr("$pageview")
        /\ IF rec.Title = "" THEN "data" \notin DOMAIN SentPayload
           ELSE /\ "data" \in DOMAIN SentPayload
                /\ SentPayload["data"] = JObject("title" :> JStr(rec.Title))

\* a PageView without a title was sent without a data member
C12_Witness ==
    /\ PageViewSent
    /\ rec.Title = ""
    /\ SentPayload["name"] = JStr("$pageview")
    /\ "data" \notin DOMAIN SentPayload

\* the event types as the documentation spells them
DocumentedFormEventTypes ==
    {"start", "field-focus", "field-blur", "field-error", "submit", "abandon"}
\* the current call holds an enumerated field with a value outside its fixed set
OutsideFixedSet ==
    \/ verb = "TrackVital" /\ (rec.Metric \notin VitalMetrics \/ rec.Rating \notin VitalRatings)
    \/ verb = "TrackFormEvent" /\ rec.EventType \notin DocumentedFormEventTypes

(***************************************************************************)
(* C13: TrackVital accepts a record only when metric is one of LCP, INP,   *)
(* CLS, TTFB, FCP and rating one of good, needs-improvement, poor, and     *)
(* TrackFormEvent only when eventType is one of the six fixed types; a     *)
(* value outside the set ends the call in a validation error with no       *)
(* request sent.  The code checks these fields for emptiness only and      *)
(* sends a request for metric "FID" or rating "terrible".                  *)
(***************************************************************************)
C13_EnumeratedValuesOnly ==
    (pc # "idle" /\ verb \in {"TrackVital", "TrackFormEvent"} /\ OutsideFixedSet
        /\ (verb = "TrackVital" => Encodable(Field("value", "float", rec.Value, FALSE)))) =>
        /\ pc = "returned"
        /\ result \in ValidationErrors
        /\ ~HasRequest
        /\ doCalls = 0

\* the path each verb is documented to post to
DocumentedPath(v, r) ==
    CASE v \in EnvelopeVerbs -> "/api/send"
      [] v = "TrackVital" -> "/api/collect/vitals"
      [] v = "TrackFormEvent" -> "/api/collect/forms"
      [] OTHER -> "/api/websites/" \o r.WebsiteID \o "/deployments"
HasHeader(name, value) == name \in DOMAIN req.Header /\ req.Header[name] = value

Drained == respBody.read \/ resp.Body.kind = "empty"

(***************************************************************************)
(* C15: whenever the transport delivered a response, the call returns with *)
(* the body of that response read to EOF and closed, whatever the status.  *)
(* The code closes the body on every path but reads it only in             *)
(* handleResponse past the success test: a 200 with a body is closed       *)
(* unread, and the generic client never reads the body.                    *)
(***************************************************************************)
C15_BodyDrainedAndClosed ==
    (pc = "returned" /\ Answered) => (respBody.received /\ Drained /\ respBody.closed)

(***************************************************************************)
(* C16: after any public call of either client, the maps (data, traits,    *)
(* properties, attribution) and the slice the caller passed hold exactly   *)
(* what they held when the call was made.  Page of the generic client      *)
(* stores "page_name" into the properties map it was given.                *)
(***************************************************************************)
C16_CallerDataUntouched == pc # "idle" => held = RefsOf(verb, rec)

(***************************************************************************)
(* Concurrent calls on one client.  A call keeps what it works on in its   *)
(* own locals; the variables pc .. held are the locals of the goroutine    *)
(* that is running, saved holds those of the others, and the scheduler     *)
(* switches between them at any step.  client and gclient are shared.      *)
(***************************************************************************)
Locals ==
    [pc |-> pc, verb |-> verb, rec |-> rec, ctx |-> ctx, req |-> req, doCalls |-> doCalls,
     resp |-> resp, result |-> result, respBody |-> respBody, held |-> held]
IdleLocals ==
    [pc |-> "idle", verb |-> "", rec |-> NoRec, ctx |-> Background, req |-> NoReq,
     doCalls |-> 0, resp |-> NoResp, result |-> NoResult, respBody |-> NoBody, held |-> <<>>]

\* the scheduler suspends the running goroutine and resumes goroutine g
Switch(g) ==
    /\ g \in DOMAIN saved
    /\ saved' = [saved EXCEPT ![g] = Locals]
    /\ pc' = saved[g].pc
    /\ verb' = saved[g].verb
    /\ rec' = saved[g].rec
    /\ ctx' = saved[g].ctx
    /\ req' = saved[g].req
    /\ doCalls' = saved[g].doCalls
    /\ resp' = saved[g].resp
    /\ result' = saved[g].result
    /\ respBody' = saved[g].respBody
    /\ held' = saved[g].held
    /\ UNCHANGED <<client, gclient, mw>>

\* records that differ in every field a request is built from
ConcEvents ==
    {[WebsiteID |-> "abc123", Name |-> "purchase", Data |-> OkMap, URL |-> "/checkout",
      Referrer |-> "", UserID |-> "user_123", SessionID |-> "", UserAgent |-> "Mozilla/5.0",
      IPAddress |-> "", Timestamp |-> CallerTime],
     [WebsiteID |-> "", Name |-> "purchase", Data |-> NilMap, URL |-> "",
      Referrer |-> "", UserID |-> "", SessionID |-> "", UserAgent |-> "",
      IPAddress |-> "192.168.1.1", Timestamp |-> ZeroTime]}
ConcPageViews ==
    {[WebsiteID |-> "abc123", URL |-> "/pricing", Referrer |-> "", Title |-> t,
      UserID |-> "", SessionID |-> "", UserAgent |-> "", IPAddress |-> "192.168.1.1",
      Timestamp |-> ZeroTime] : t \in {"", "Pricing"}}
ConcDeployments ==
    {[WebsiteID |-> w, DeployID |-> "dpl_1", GitSha |-> "", GitBranch |-> "",
      DeployURL |-> "", Source |-> ""] : w \in {"abc123", "site-2"}}
ConcResponses ==
    {Response(StatusOK, NoHeaders, EmptyBody),
     Response(StatusUnauthorized, NoHeaders, EmptyBody),
     Response(StatusTooManyRequests, ("Retry-After" :> <<"3", "0">>), EmptyBody),
     Response(500, NoHeaders, EmptyBody)}

ConcInit ==
    /\ \E s \in Setups :
          /\ client = NewClientWithOptions(s.opts)
          /\ gclient = New(s.config)
    /\ pc = "idle"
    /\ verb = ""
    /\ rec = NoRec
    /\ ctx = Background
    /\ req = NoReq
    /\ doCalls = 0
    /\ resp = NoResp
    /\ result = NoResult
    /\ respBody = NoBody
    /\ held = <<>>
    /\ saved = [g \in 1..MaxOthers |-> IdleLocals]
    /\ mw = [pc |-> "idle"]

ConcNext ==
    \/ \E event \in ConcEvents : Track(event)
    \/ \E c \in {"live"}, pv \in ConcPageViews : PageViewWithContext(c, pv)
    \/ \E deploy \in ConcDeployments : SetDeployment(deploy)
    \/ \E properties \in {NilMap, OkMap} : GenericPage("Pricing", properties)
    \/ \E r \in ConcResponses : Respond(r)
    \/ \E cause \in TransportFailures : TransportFail(cause)
    \/ \E how \in {"canceled"} : CancelCtx(how)
    \/ DoAbort
    \/ NextCall
    \/ \E g \in 1..MaxOthers : Switch(g)

ConcSpec == ConcInit /\ [][ConcNext]_vars

\* every goroutine's locals
AllLocals == {Locals} \cup {saved[g] : g \in DOMAIN saved}
\* the website a body reports: in the payload of an envelope, or at the top
SentWebsite(l) ==
    IF l.verb \in EnvelopeVerbs THEN l.req.Body.v["payload"].v["website"]
    ELSE l.req.Body.v["website"]
HeaderOf(l, name) == IF name \in DOMAIN l.req.Header THEN l.req.Header[name] ELSE ""
\* the request of a call is built from its own record and the configuration
OwnRequest(l) ==
    /\ l.req.URL = client.host \o DocumentedPath(l.verb, l.rec)
    /\ HeaderOf(l, "Authorization") = "Bearer " \o client.apiKey
    /\ HeaderOf(l, "User-Agent") = client.userAgent
    /\ SentWebsite(l) = JStr(l.rec.WebsiteID)
    /\ l.verb \in {"Track", "PageView"} =>
          /\ HeaderOf(l, "X-Forwarded-User-Agent") = l.rec.UserAgent
          /\ HeaderOf(l, "X-Forwarded-For") = l.rec.IPAddress
    /\ l.verb \notin {"Track", "PageView"} =>
          /\ HeaderOf(l, "X-Forwarded-User-Agent") = ""
          /\ HeaderOf(l, "X-Forwarded-For") = ""
\* the result of a call is the classification of its own response
OwnResult(l) ==
    /\ l.result = Nil <=> l.resp.StatusCode \in {StatusOK, StatusCreated}
    /\ l.result.type = "AuthenticationError" <=> l.resp.StatusCode = StatusUnauthorized
    /\ l.result.type = "RateLimitError" <=> l.resp.StatusCode = StatusTooManyRequests
    /\ l.result.type = "EntrolyticsError" => l.result.StatusCode = l.resp.StatusCode
\* the step is a switch to goroutine g
Switched(g) == saved'[g] = Locals /\ Locals' = saved[g]

(***************************************************************************)
(* C17: under any interleaving of concurrent calls on one client, the      *)
(* configuration (apiKey, host, timeout, userAgent) is never written after *)
(* construction; the request of every call in flight is built from that    *)
(* call's own record and the configuration, and the result of every        *)
(* answered call is the classification of that call's own response; a step *)
(* of one call changes nothing that another call holds.                    *)
(***************************************************************************)
C17_CallsDoNotInterfere ==
    /\ [][client' = client /\ gclient' = gclient]_vars
    /\ [](\A l \in AllLocals :
             /\ (l.req.Method # "" /\ l.verb \in EntrolyticsVerbs) => OwnRequest(l)
             /\ (l.pc = "returned" /\ l.verb \in EntrolyticsVerbs /\ l.resp.StatusCode # 0)
                   => OwnResult(l))
    /\ [][saved' = saved \/ \E g \in DOMAIN saved : Switched(g)]_vars

\* two calls in flight at once, with different records, each with its own request
C17_Witness ==
    /\ pc = "inflight" /\ verb = "SetDeployment" /\ rec.WebsiteID = "site-2"
    /\ \E g \in DOMAIN saved :
          /\ saved[g].pc = "inflight"
          /\ saved[g].verb = "Track"
          /\ saved[g].rec.UserAgent = "Mozilla/5.0"
          /\ HeaderOf(saved[g], "X-Forwarded-User-Agent") = "Mozilla/5.0"
    /\ HeaderOf(Locals, "X-Forwarded-User-Agent") = ""
    /\ req.URL = client.host \o "/api/websites/site-2/deployments"

(***************************************************************************)
(* The middleware (middleware.go).  The strings it takes apart are         *)
(* sequences of one-character strings; Str joins them into the string a    *)
(* record holds.                                                           *)
(***************************************************************************)
RECURSIVE Str(_)
Str(s) == IF s = <<>> THEN "" ELSE s[1] \o Str(Tail(s))

\* strings.HasPrefix, strings.HasSuffix
HasPrefix(s, prefix) == Len(s) >= Len(prefix) /\ SubSeq(s, 1, Len(prefix)) = prefix
HasSuffix(s, suffix) ==
    Len(s) >= Len(suffix) /\ SubSeq(s, Len(s) - Len(suffix) + 1, Len(s)) = suffix
\* strings.Index and strings.LastIndex for a one-character separator: the
\* position counted from 1, or 0 where Go returns -1
Index(s, c) ==
    IF \E i \in 1..Len(s) : s[i] = c
    THEN CHOOSE i \in 1..Len(s) : s[i] = c /\ \A j \in 1..(i - 1) : s[j] # c
    ELSE 0
LastIndex(s, c) ==
    IF \E i \in 1..Len(s) : s[i] = c
    THEN CHOOSE i \in 1..Len(s) : s[i] = c /\ \A j \in (i + 1)..Len(s) : s[j] # c
    ELSE 0
\* strings.TrimSpace
RECURSIVE TrimLeft(_)
TrimLeft(s) == IF s # <<>> /\ s[1] = " " THEN TrimLeft(Tail(s)) ELSE s
RECURSIVE TrimRight(_)
TrimRight(s) ==
    IF s # <<>> /\ s[Len(s)] = " " THEN TrimRight(SubSeq(s, 1, Len(s) - 1)) ELSE s
TrimSpace(s) == TrimRight(TrimLeft(s))

defaultSkipExtensions ==
    <<<<".", "c", "s", "s">>,
      <<".", "j", "s">>,
      <<".", "p", "n", "g">>,
      <<".", "j", "p", "g">>,
      <<".", "j", "p", "e", "g">>,
      <<".", "g", "i", "f">>,
      <<".", "s", "v", "g">>,
      <<".", "i", "c", "o">>,
      <<".", "w", "o", "f", "f">>,
      <<".", "w", "o", "f", "f", "2">>,
      <<".", "t", "t", "f">>,
      <<".", "e", "o", "t">>,
      <<".", "m", "a", "p">>,
      <<".", "j", "s", "o", "n">>,
      <<".", "x", "m", "l">>>>

\* r.Header.Get(name) of the inbound request
InboundGet(r, name) == IF name \in DOMAIN r.Header THEN r.Header[name] ELSE <<>>

\* getClientIP with the headers consulted in another order
getClientIP_RealIPFirst(r) ==
    LET xff == InboundGet(r, "X-Forwarded-For")
        xri == InboundGet(r, "X-Real-IP")
        cfip == InboundGet(r, "CF-Connecting-IP")
        ip == r.RemoteAddr
    IN  IF xri # <<>> THEN xri
        ELSE IF xff # <<>>
        THEN IF Index(xff, ",") # 0 THEN TrimSpace(SubSeq(xff, 1, Index(xff, ",") - 1))
             ELSE TrimSpace(xff)
        ELSE IF cfip # <<>> THEN cfip
        ELSE IF LastIndex(ip, ":") # 0 THEN SubSeq(ip, 1, LastIndex(ip, ":") - 1)
        ELSE ip

getClientIP(r) ==
    LET xff == InboundGet(r, "X-Forwarded-For")
        xri == InboundGet(r, "X-Real-IP")
        cfip == InboundGet(r, "CF-Connecting-IP")
        ip == r.RemoteAddr
    IN  IF xff # <<>>
        THEN IF Index(xff, ",") # 0 THEN TrimSpace(SubSeq(xff, 1, Index(xff, ",") - 1))
             ELSE TrimSpace(xff)
        ELSE IF xri # <<>> THEN xri
        ELSE IF cfip # <<>> THEN cfip
        ELSE IF LastIndex(ip, ":") # 0 THEN SubSeq(ip, 1, LastIndex(ip, ":") - 1)
        ELSE ip

\* MiddlewareOptions; a nil getter, or one returning a value
NilFunc == [nil |-> TRUE]
Func(v) == [nil |-> FALSE, returns |-> v]
MiddlewareOptions(skipPaths, skipExtensions, trackQueryParams, getUserID, getSessionID) ==
    [SkipPaths |-> skipPaths, SkipExtensions |-> skipExtensions,
     TrackQueryParams |-> trackQueryParams,
     GetUserID |-> getUserID, GetSessionID |-> getSessionID]
ZeroOptions == MiddlewareOptions(<<>>, <<>>, FALSE, NilFunc, NilFunc)

\* the inbound *http.Request: a header is present when its value is not empty
Inbound(method, path, rawQuery, xff, xri, cfip, remoteAddr) ==
    [Method |-> method, Path |-> path, RawQuery |-> rawQuery,
     Header |-> [n \in {m \in {"X-Forwarded-For", "X-Real-IP", "CF-Connecting-IP"} :
                           (CASE m = "X-Forwarded-For" -> xff
                              [] m = "X-Real-IP" -> xri
                              [] OTHER -> cfip) # <<>>}
                 |-> CASE n = "X-Forwarded-For" -> xff
                       [] n = "X-Real-IP" -> xri
                       [] OTHER -> cfip],
     RemoteAddr |-> remoteAddr,
     Referer |-> "https://ref.example/", UserAgent |-> "Mozilla/5.0"]
NoInbound == [Method |-> ""]

\* if len(skipExtensions) == 0 { ... } left out
skipExtensions_AlwaysDefault(opts) == defaultSkipExtensions

skipExtensions(opts) ==
    IF Len(opts.SkipExtensions) = 0 THEN defaultSkipExtensions ELSE opts.SkipExtensions

\* the three early exits of the wrapper, in their order
shouldTrack(opts, r) ==
    IF r.Method # "GET" THEN FALSE
    ELSE IF \E i \in DOMAIN opts.SkipPaths : HasPrefix(r.Path, opts.SkipPaths[i]) THEN FALSE
    ELSE IF \E i \in DOMAIN skipExtensions(opts) : HasSuffix(r.Path, skipExtensions(opts)[i])
    THEN FALSE
    ELSE TRUE

trackedURL(opts, r) ==
    IF opts.TrackQueryParams /\ r.RawQuery # ""
    THEN Str(r.Path) \o "?" \o r.RawQuery
    ELSE Str(r.Path)

CallGetter(f) == IF f.nil THEN "" ELSE f.returns

IdleMw(websiteID) ==
    [pc |-> "idle", websiteID |-> websiteID, kind |-> "", arrived |-> NoInbound,
     r |-> NoInbound, opts |-> ZeroOptions, spawned |-> FALSE, captured |-> NoRec,
     handlerCalls |-> 0, wrote |-> <<>>, written |-> 0, recorded |-> 0]

\* The wrapper up to its call of the wrapped handler, for one inbound request:
\* captured holds what it has computed from the request by then.
Enter(kind, opts, r, spawned, captured) ==
    /\ mw.pc = "idle"
    /\ mw' = [pc |-> "entered", websiteID |-> mw.websiteID, kind |-> kind,
              arrived |-> r, r |-> r, opts |-> opts, spawned |-> spawned,
              captured |-> captured, handlerCalls |-> 0, wrote |-> <<>>, written |-> 0,
              recorded |-> 0]
    /\ UNCHANGED <<client, gclient, pc, verb, rec, ctx, req, doCalls, resp, result,
                   respBody, held, saved>>

\* url, userID and sessionID are computed before the go statement
PageViewMiddlewareWithOptions(opts, r) ==
    IF shouldTrack(opts, r)
    THEN Enter("PageViewMiddleware", opts, r, TRUE,
               [URL |-> trackedURL(opts, r),
                UserID |-> CallGetter(opts.GetUserID),
                SessionID |-> CallGetter(opts.GetSessionID)])
    ELSE Enter("PageViewMiddleware", opts, r, FALSE, NoRec)

PageViewMiddleware(r) == PageViewMiddlewareWithOptions(ZeroOptions, r)

\* data is computed before the go statement
TrackEventHandler(eventName, getData, r) ==
    Enter("TrackEventHandler", ZeroOptions, r, TRUE,
          [Name |-> eventName, Data |-> IF getData.nil THEN NilMap ELSE getData.returns])

TrackOnSuccess(r) == Enter("TrackOnSuccess", ZeroOptions, r, FALSE, NoRec)

\* The record that the function literal of the go statement builds: it is
\* evaluated when the goroutine runs, from the request as it is then and
\* from the values captured.
TrackingRecord(m) ==
    CASE m.kind = "PageViewMiddleware" ->
            [WebsiteID |-> m.websiteID, URL |-> m.captured.URL,
             Referrer |-> m.r.Referer, Title |-> "",
             UserID |-> m.captured.UserID, SessionID |-> m.captured.SessionID,
             UserAgent |-> m.r.UserAgent, IPAddress |-> Str(getClientIP(m.r)),
             Timestamp |-> ZeroTime]
      [] m.kind = "TrackEventHandler" ->
            [WebsiteID |-> m.websiteID, Name |-> m.captured.Name, Data |-> m.captured.Data,
             URL |-> Str(m.r.Path), Referrer |-> m.r.Referer, UserID |-> "",
             SessionID |-> "", UserAgent |-> m.r.UserAgent,
             IPAddress |-> Str(getClientIP(m.r)), Timestamp |-> ZeroTime]
      [] OTHER ->
            [WebsiteID |-> m.websiteID, URL |-> Str(m.r.Path),
             Referrer |-> m.r.Referer, Title |-> "", UserID |-> "", SessionID |-> "",
             UserAgent |-> m.r.UserAgent, IPAddress |-> Str(getClientIP(m.r)),
             Timestamp |-> ZeroTime]

\* WriteHeader that keeps the first code it was given
WriteHeader_FirstWins(statusCode, codes) ==
    IF codes = <<>> THEN statusCode ELSE codes[1]

\* ResponseRecorder.WriteHeader for each code of codes in turn, from the
\* StatusCode the recorder holds: rr.StatusCode = code
RECURSIVE WriteHeader(_, _)
WriteHeader(statusCode, codes) ==
    IF codes = <<>> THEN statusCode ELSE WriteHeader(codes[1], Tail(codes))

\* the status the server sends: that of the first WriteHeader with a final
\* status, 200 when there is none
RECURSIVE StatusSent(_)
StatusSent(codes) ==
    IF codes = <<>> THEN StatusOK
    ELSE IF codes[1] >= 200 THEN codes[1]
    ELSE StatusSent(Tail(codes))

\* what a handler may do to the request it was given
Rewrites == {"none", "Header.Del"}
Rewritten(r, rewrite) ==
    IF rewrite = "Header.Del"
    THEN [r EXCEPT !.Header = [n \in DOMAIN r.Header \ {"X-Forwarded-For"} |-> r.Header[n]]]
    ELSE r

\* the wrapped handler called only once the tracking call has returned
ServeHTTP_AfterTracking(codes, rewrite) ==
    /\ mw.pc = "entered"
    /\ pc = "returned"
    /\ mw' = [mw EXCEPT !.pc = "done", !.handlerCalls = @ + 1, !.wrote = codes,
                        !.written = StatusSent(codes), !.r = Rewritten(@, rewrite)]
    /\ UNCHANGED <<client, gclient, pc, verb, rec, ctx, req, doCalls, resp, result,
                   respBody, held, saved>>

\* next.ServeHTTP(w, r), handler(w, r): the wrapped handler calls WriteHeader
\* with codes and may rewrite the request; then what the wrapper does when
\* the handler has returned: TrackOnSuccess, for a GET, reads the recorder
\* it passed and reaches its go statement on a 2xx.
ServeHTTP(codes, rewrite) ==
    LET recording == mw.kind = "TrackOnSuccess" /\ mw.r.Method = "GET"
        recorded == WriteHeader(StatusOK, codes)
    IN  /\ mw.pc = "entered"
        /\ mw' = [mw EXCEPT !.pc = "done", !.handlerCalls = @ + 1, !.wrote = codes,
                            !.written = StatusSent(codes), !.r = Rewritten(@, rewrite),
                            !.recorded = IF recording THEN recorded ELSE 0,
                            !.spawned = IF recording THEN recorded >= 200 /\ recorded < 300
                                        ELSE @]
        /\ UNCHANGED <<client, gclient, pc, verb, rec, ctx, req, doCalls, resp, result,
                       respBody, held, saved>>

\* The wrapper returns to the server once the wrapped handler has; the
\* goroutine it started, wherever it is, is followed no further.
Return ==
    /\ mw.pc = "done"
    /\ mw' = IdleMw(mw.websiteID)
    /\ pc' = "idle"
    /\ verb' = ""
    /\ rec' = NoRec
    /\ ctx' = Background
    /\ req' = NoReq
    /\ resp' = NoResp
    /\ result' = NoResult
    /\ doCalls' = 0
    /\ respBody' = NoBody
    /\ held' = <<>>
    /\ UNCHANGED <<client, gclient, saved>>

\* go func() { _ = client.PageView(...) }()
GoPageView ==
    /\ mw.pc \in {"entered", "done"}
    /\ mw.spawned
    /\ mw.kind \in {"PageViewMiddleware", "TrackOnSuccess"}
    /\ PageView(TrackingRecord(mw))

\* go func() { _ = client.Track(...) }()
GoTrack ==
    /\ mw.pc \in {"entered", "done"}
    /\ mw.spawned
    /\ mw.kind = "TrackEventHandler"
    /\ Track(TrackingRecord(mw))

InboundPaths == {<<"/">>, <<"/", "a">>, <<"/", "a", ".", "j", "s">>,
        <<"/", "a", ".", "j", "s", "o", "n">>, <<"/", "s", "a">>, <<"/", "s", "/", "a">>}
InboundQueries == {"", "x=1"}
\* requests that differ in method, path and query
RoutedRequests ==
    {Inbound(m, p, q, <<>>, <<>>, <<>>, <<"1", "0", ".", "0", ".", "0", ".", "4", ":", "8", "0">>) :
        m \in {"GET", "POST"}, p \in InboundPaths, q \in InboundQueries}
\* requests that differ in where the client address is found
ProxiedRequests ==
    {Inbound("GET", <<"/", "a">>, "", xff, xri, cfip, remote) :
        xff \in {<<>>, <<"1", "0", ".", "0", ".", "0", ".", "1">>,
                <<"1", "0", ".", "0", ".", "0", ".", "1", ",", " ", "1", "0", ".", "0", ".", "0", ".", "9">>,
                <<" ", "1", "0", ".", "0", ".", "0", ".", "1", " ", ",", "1", "0", ".", "0", ".", "0", ".", "9">>,
                <<" ">>},
        xri \in {<<>>, <<"1", "0", ".", "0", ".", "0", ".", "2">>},
        cfip \in {<<>>, <<"1", "0", ".", "0", ".", "0", ".", "3">>},
        remote \in {<<"1", "0", ".", "0", ".", "0", ".", "4", ":", "8", "0">>,
                <<"[", ":", ":", "1", "]", ":", "8", "0">>,
                <<"1", "0", ".", "0", ".", "0", ".", "4">>}}
InboundRequests == RoutedRequests \cup ProxiedRequests
ConfiguredOptions ==
    {MiddlewareOptions(sp, se, tq, NilFunc, NilFunc) :
        sp \in {<<>>, <<<<"/", "s">>>>, <<<<"/", "x">>, <<"/", "s", "/">>>>},
        se \in {<<>>, <<<<".", "j", "s">>>>},
        tq \in BOOLEAN}
    \cup {MiddlewareOptions(<<>>, <<>>, TRUE, Func("user_123"), Func("sess_456"))}
\* the WriteHeader calls of a wrapped handler
HandlerWrites == {<<>>, <<199>>, <<299>>, <<300>>, <<500>>, <<500, StatusOK>>}
DataGetters == {NilFunc, Func(OkMap)}
TrackerResponses ==
    {Response(StatusOK, NoHeaders, EmptyBody),
     Response(StatusUnauthorized, NoHeaders, EmptyBody),
     Response(500, NoHeaders, EmptyBody)}

MwInit ==
    /\ \E s \in Setups :
          /\ client = NewClientWithOptions(s.opts)
          /\ gclient = New(s.config)
    /\ pc = "idle"
    /\ verb = ""
    /\ rec = NoRec
    /\ ctx = Background
    /\ req = NoReq
    /\ doCalls = 0
    /\ resp = NoResp
    /\ result = NoResult
    /\ respBody = NoBody
    /\ held = <<>>
    /\ saved = <<>>
    /\ mw = IdleMw("abc123")

MwNext ==
    \/ \E opts \in ConfiguredOptions, r \in RoutedRequests :
          PageViewMiddlewareWithOptions(opts, r)
    \/ \E r \in InboundRequests : PageViewMiddleware(r)
    \/ \E getData \in DataGetters, r \in ProxiedRequests :
          TrackEventHandler("signup", getData, r)
    \/ \E r \in RoutedRequests : TrackOnSuccess(r)
    \/ \E codes \in HandlerWrites, rewrite \in Rewrites : ServeHTTP(codes, rewrite)
    \/ Return
    \/ GoPageView
    \/ GoTrack
    \/ \E r \in TrackerResponses : Respond(r)
    \/ \E cause \in TransportFailures : TransportFail(cause)

MwSpec == MwInit /\ [][MwNext]_vars

(***************************************************************************)
(* C18: PageViewMiddleware, PageViewMiddlewareWithOptions and              *)
(* TrackEventHandler call the wrapped handler exactly once for a request;  *)
(* the call waits for nothing and depends on nothing of the tracking: it   *)
(* can be made whether no tracking was started or the tracking call is     *)
(* still to start, in flight, or has returned with success or an error;    *)
(* and no step of the tracking call changes what is written to the         *)
(* response.                                                               *)
(***************************************************************************)
Serving == mw.pc \in {"entered", "done"}
TrackingStep == pc' # pc \/ result' # result \/ req' # req \/ resp' # resp
C18_HandlerOnceWhateverTracking ==
    /\ [](Serving => mw.handlerCalls = IF mw.pc = "done" THEN 1 ELSE 0)
    /\ [](mw.pc = "entered" =>
            ENABLED (\E codes \in HandlerWrites, rewrite \in Rewrites :
                        ServeHTTP(codes, rewrite)))
    /\ [][Serving /\ mw'.pc # "idle" /\ TrackingStep => mw' = mw]_vars
    /\ [][mw.pc = "done" /\ mw'.pc = "done" => mw'.written = mw.written]_vars

\* the handler has answered 200 although the tracking call it did not wait
\* for came back refused
C18_Witness ==
    /\ mw.pc = "done" /\ mw.handlerCalls = 1 /\ mw.written = StatusOK
    /\ mw.spawned /\ pc = "returned" /\ result.type = "AuthenticationError"

(***************************************************************************)
(* C19: PageViewMiddlewareWithOptions starts a page-view call exactly when *)
(* the method is GET, the path starts with none of SkipPaths and ends with *)
(* none of the skip extensions (the configured list, the default list when *)
(* the configured one is empty); the URL of the page view is the path,     *)
(* followed by "?" and the query only when TrackQueryParams is set and the *)
(* query is not empty.                                                     *)
(***************************************************************************)
Range(s) == {s[i] : i \in DOMAIN s}
StartsWith(s, p) == \E n \in 0..Len(s) : SubSeq(s, 1, n) = p
EndsWith(s, p) == \E n \in 0..Len(s) : SubSeq(s, n + 1, Len(s)) = p
ExtensionsInForce(opts) ==
    IF opts.SkipExtensions = <<>> THEN defaultSkipExtensions ELSE opts.SkipExtensions
ToBeTracked(opts, r) ==
    /\ r.Method = "GET"
    /\ \A p \in Range(opts.SkipPaths) : ~StartsWith(r.Path, p)
    /\ \A e \in Range(ExtensionsInForce(opts)) : ~EndsWith(r.Path, e)
URLToTrack(opts, r) ==
    Str(r.Path) \o (IF opts.TrackQueryParams /\ r.RawQuery # "" THEN "?" \o r.RawQuery ELSE "")
C19_PageViewIffNotSkipped ==
    Serving /\ mw.kind = "PageViewMiddleware" =>
        /\ mw.spawned <=> ToBeTracked(mw.opts, mw.arrived)
        /\ mw.spawned => mw.captured.URL = URLToTrack(mw.opts, mw.arrived)
        /\ verb = "PageView" => mw.spawned /\ rec.URL = mw.captured.URL
        /\ pc = "inflight" => SentPayload["url"] = JStr(URLToTrack(mw.opts, mw.arrived))

\* a path ending in a default extension tracked, query included, under a
\* configured list that does not hold it
C19_Witness ==
    /\ Serving /\ mw.kind = "PageViewMiddleware" /\ mw.spawned
    /\ mw.opts.SkipExtensions # <<>> /\ mw.opts.SkipPaths # <<>>
    /\ mw.opts.TrackQueryParams
    /\ pc = "inflight" /\ verb = "PageView" /\ rec.URL = "/a.json?x=1"

(***************************************************************************)
(* C20: the client address is the first comma-separated entry of           *)
(* X-Forwarded-For, trimmed, when that header is not empty; else           *)
(* X-Real-IP; else CF-Connecting-IP; else RemoteAddr without its port      *)
(* suffix.                                                                 *)
(***************************************************************************)
\* s without the spaces around it
Trimmed(s) ==
    CHOOSE t \in {SubSeq(s, i, j) : i \in 1..(Len(s) + 1), j \in 0..Len(s)} :
        /\ t = <<>> \/ (t[1] # " " /\ t[Len(t)] # " ")
        /\ \E a \in 0..Len(s), b \in 0..Len(s) :
              /\ a + Len(t) + b = Len(s)
              /\ SubSeq(s, a + 1, a + Len(t)) = t
              /\ \A k \in 1..a : s[k] = " "
              /\ \A k \in (Len(s) - b + 1)..Len(s) : s[k] = " "
FirstEntry(s) ==
    LET commas == {i \in DOMAIN s : s[i] = ","}
    IN  IF commas = {} THEN s
        ELSE SubSeq(s, 1, (CHOOSE i \in commas : \A j \in commas : i <= j) - 1)
WithoutPort(addr) ==
    LET colons == {i \in DOMAIN addr : addr[i] = ":"}
    IN  IF colons = {} THEN addr
        ELSE SubSeq(addr, 1, (CHOOSE i \in colons : \A j \in colons : i >= j) - 1)
ClientAddress(r) ==
    IF InboundGet(r, "X-Forwarded-For") # <<>>
    THEN Trimmed(FirstEntry(InboundGet(r, "X-Forwarded-For")))
    ELSE IF InboundGet(r, "X-Real-IP") # <<>> THEN InboundGet(r, "X-Real-IP")
    ELSE IF InboundGet(r, "CF-Connecting-IP") # <<>> THEN InboundGet(r, "CF-Connecting-IP")
    ELSE WithoutPort(r.RemoteAddr)
\* the address is taken from the request as the tracking goroutine finds it
\* when it starts, and is the one forwarded
C20_ClientIPPrecedence ==
    /\ [][Serving /\ pc = "idle" /\ pc' # "idle" =>
              rec'.IPAddress = Str(ClientAddress(mw.r))]_vars
    /\ [](Serving /\ pc = "inflight" =>
              HeaderOf(Locals, "X-Forwarded-For") = rec.IPAddress)

\* the first of two forwarded entries, spaces removed, preferred to the
\* other two headers
C20_Witness ==
    /\ Serving /\ mw.spawned /\ pc = "inflight"
    /\ Str(InboundGet(mw.r, "X-Forwarded-For")) = " 10.0.0.1 ,10.0.0.9"
    /\ InboundGet(mw.r, "X-Real-IP") # <<>>
    /\ InboundGet(mw.r, "CF-Connecting-IP") # <<>>
    /\ rec.IPAddress = "10.0.0.1"
    /\ HeaderOf(Locals, "X-Forwarded-For") = "10.0.0.1"

(***************************************************************************)
(* C24: the RetryAfter of every RateLimitError the client returns is not   *)
(* negative, whatever the Retry-After header holds: absent, empty, not     *)
(* numeric, zero, a positive or a negative integer.  It fails for a        *)
(* negative integer, which strconv.Atoi accepts and the client hands on.   *)
(***************************************************************************)
C24_RetryAfterNotNegative ==
    pc = "returned" /\ result.type = "RateLimitError" => result.RetryAfter >= 0

(***************************************************************************)
(* Batch and BatchWithContext of the generic client.                       *)
(***************************************************************************)
BatchCalled == verb = "client.Batch" /\ pc # "idle"
\* the array entry expected for an event: its own fields, the timestamp and
\* the website ID defaulted
ExpectedEntry(e) ==
    [t |-> "object",
     v |-> [k \in {"event", "properties", "userId", "anonymousId", "timestamp", "website_id"} |->
              CASE k = "event" -> JStr(e.Event)
                [] k = "properties" ->
                      IF e.Properties.nil THEN [t |-> "null", v |-> "null"]
                      ELSE [t |-> "object",
                            v |-> [p \in DOMAIN e.Properties.kv |-> JStr(e.Properties.kv[p])]]
                [] k = "userId" -> JStr(e.UserID)
                [] k = "anonymousId" -> JStr(e.AnonymousID)
                [] k = "timestamp" ->
                      JStr(FormatRFC3339Nano(IF e.Timestamp = ZeroTime
                                             THEN CHOOSE now \in Clock : TRUE
                                             ELSE e.Timestamp))
                [] OTHER ->
                      JStr(IF e.WebsiteID = "" THEN gclient.config.APIKey ELSE e.WebsiteID)]]
OneBatchRequest ==
    /\ HasRequest
    /\ doCalls = 1
    /\ req.Method = "POST"
    /\ req.URL = gclient.config.Endpoint \o "/collect/batch"
    /\ req.Body.t = "array"
    /\ DOMAIN req.Body.v = DOMAIN rec
    /\ \A i \in DOMAIN rec : req.Body.v[i] = ExpectedEntry(rec[i])
    /\ pc = "returned" /\ Answered =>
          IF resp.StatusCode >= 400 THEN result.type = "errorString" ELSE result = Nil
NoBatchRequest == pc = "returned" /\ ~HasRequest /\ doCalls = 0
CannotEncode(events) ==
    \E i \in DOMAIN events : \E p \in DOMAIN events[i].Properties.kv :
        events[i].Properties.kv[p] = "<func>"

(***************************************************************************)
(* C22 as stated: Batch with no events returns success and issues no       *)
(* request; with n >= 1 events it issues exactly one POST to               *)
(* {endpoint}/collect/batch whose body is the array of the n entries in    *)
(* input order, and fails as a whole on a status >= 400.  It fails for a   *)
(* batch holding an event that JSON cannot encode, and for an endpoint no  *)
(* request can be built from: no request is issued then.                   *)
(***************************************************************************)
C22_BatchIsOneArrayRequest ==
    BatchCalled =>
        IF Len(rec) = 0 THEN NoBatchRequest /\ result = Nil
        ELSE OneBatchRequest

(***************************************************************************)
(* C22 amended: Batch with no events returns success and issues no         *)
(* request; with n >= 1 events it returns an error and issues no request   *)
(* when an event cannot be encoded or no request can be built from the     *)
(* endpoint; otherwise it issues exactly one POST to                       *)
(* {endpoint}/collect/batch whose body is the array of the n entries in    *)
(* input order, each with its event's fields, the timestamp defaulted to   *)
(* now and website_id to the API key, and fails as a whole on a status     *)
(* >= 400.                                                                 *)
(***************************************************************************)
C22_BatchIsOneArrayRequestWhenBuilt ==
    BatchCalled =>
        IF Len(rec) = 0 THEN NoBatchRequest /\ result = Nil
        ELSE IF CannotEncode(rec) \/ gclient.config.Endpoint = MalformedHost
        THEN NoBatchRequest /\ result.type = "wrapError"
        ELSE OneBatchRequest

\* two events, the first with neither timestamp nor website ID, sent in one
\* request that the server refused
C22_Witness ==
    /\ BatchCalled /\ pc = "returned" /\ Len(rec) = 2
    /\ rec[1].WebsiteID = "" /\ rec[1].Timestamp = ZeroTime /\ rec[2].Event = "upgrade"
    /\ gclient.config.APIKey # ""
    /\ resp.StatusCode = 500 /\ result.type = "errorString"
    /\ req.Body.v[1].v["website_id"] = JStr(gclient.config.APIKey)
    /\ req.Body.v[2].v["event"] = JStr("upgrade")

(***************************************************************************)
(* C21: TrackOnSuccess reaches its go statement for a request exactly when *)
(* the method is GET and the status recorded for the wrapped handler is in *)
(* 200..299, the last code given to WriteHeader or 200 when WriteHeader    *)
(* was never called; the page-view call starts only once the wrapped       *)
(* handler has returned; the wrapped handler is called exactly once.       *)
(***************************************************************************)
OnSuccess == Serving /\ mw.kind = "TrackOnSuccess"
RecordedStatus == IF mw.wrote = <<>> THEN 200 ELSE mw.wrote[Len(mw.wrote)]
RequestAtGo == IF mw.kind = "TrackOnSuccess" THEN mw.r ELSE mw.arrived
C23_GoroutineUsesCapturedValues ==
    Serving /\ pc # "idle" => rec = TrackingRecord([mw EXCEPT !.r = RequestAtGo])

====
